---- MODULE Spec2Model ----
(***************************************************************************)
(* A model of booru-dl's download scheduler (src/src/scheduler.rs) with    *)
(* the transfer future (src/src/download.rs) and the file hasher           *)
(* (src/src/hash.rs) it drives.                                            *)
(*                                                                         *)
(* Strings are sequences of one-character strings, file contents are       *)
(* sequences of small bytes, and usize is UsizeBits wide.  MD5 is replaced *)
(* by a one-byte running digest with the same new/update/finalize shape.   *)
(***************************************************************************)
EXTENDS Integers, Sequences, FiniteSets, TLC

\* ------------------------------------------------------------------ bounds
MaxPosts == 2
MaxCpus == 2
UsizeBits == 2
MaxTicks == 3

UsizeModulus == 2 ^ UsizeBits

\* ------------------------------------------------------- strings and bytes
NoExt == ""

\* Option<T>: None is the empty sequence, Some(v) the sequence of v alone.
None == <<>>
Some(v) == <<v>>

\* A path of the directory names no file, or a file with its bytes.
Absent == None
File(data) == Some(data)

\* The bytes of the characters tag strings are made of.
SPACE == 32
COMMA == 44
CharA == 97
CharB == 98

HexLower == <<"0", "1", "2", "3", "4", "5", "6", "7",
              "8", "9", "a", "b", "c", "d", "e", "f">>
HexUpper == <<"0", "1", "2", "3", "4", "5", "6", "7",
              "8", "9", "A", "B", "C", "D", "E", "F">>

RECURSIVE Flatten(_)
Flatten(ss) == IF ss = <<>> THEN <<>> ELSE Head(ss) \o Flatten(Tail(ss))

RECURSIVE Zeros(_)
Zeros(n) == IF n = 0 THEN <<>> ELSE <<0>> \o Zeros(n - 1)

Min(a, b) == IF a < b THEN a ELSE b

\* ------------------------------------------------------------ src/hash.rs
DEFAULT_BUF_SIZE == 2 * 1024 * 1024

\* Digest::new / Digest::update / Digest::finalize of the stand-in digest.
DigestNew == 212

RECURSIVE DigestUpdate(_, _)
DigestUpdate(h, data) ==
    IF data = <<>> THEN h
    ELSE DigestUpdate((h * 7 + Head(data) + 10) % 256, Tail(data))

\* base16ct::lower::encode_string
encode_string(h) == <<HexLower[(h \div 16) + 1], HexLower[(h % 16) + 1]>>

\* The read loop of hash_file: each read returns at most buf_size bytes and a
\* read of 0 bytes ends the loop.
RECURSIVE HashLoop(_, _, _)
HashLoop(hasher, rest, buf_size) ==
    LET n == Min(buf_size, Len(rest))
    IN IF n = 0 THEN hasher
       ELSE HashLoop(DigestUpdate(hasher, SubSeq(rest, 1, n)),
                     SubSeq(rest, n + 1, Len(rest)), buf_size)

\* No call of hash_file is under way.
HashIdle ==
    [pc |-> "idle", file |-> None, buf |-> <<>>, rest |-> <<>>,
     hasher |-> DigestNew, fed |-> <<>>, result |-> None]

IoOk(v) == [ok |-> TRUE, val |-> v, kind |-> ""]
IoErr(k) == [ok |-> FALSE, val |-> FALSE, kind |-> k]

\* hash_file(filepath): file is the content at filepath (or Absent), io the
\* fault the file system injects ("none" or an error kind).
hash_file(file, io) ==
    IF io # "none" THEN IoErr(io)
    ELSE IF file = Absent THEN IoErr("NotFound")
    ELSE LET file_size == Len(file[1])
              buf_size == Min(DEFAULT_BUF_SIZE, file_size)
         IN IoOk(encode_string(HashLoop(DigestNew, file[1], buf_size)))

\* ------------------------------------------------------------- src/api.rs
\* anyhow::Result and reqwest::Result.
Ok(v) == [ok |-> TRUE, val |-> v, err |-> ""]
Err(e) == [ok |-> FALSE, val |-> <<>>, err |-> e]

\* BatchGetter::run asks for pages of LIMIT posts.
LIMIT == 100

\* Getter::build without the check of limit.
GetterBuildAnyLimit(tags, limit, pid) ==
    IF tags = <<>> THEN Err("Tags cannot be empty")
    ELSE Ok([tags |-> tags, limit |-> limit, pid |-> pid])

\* Getter::build
GetterBuild(tags, limit, pid) ==
    IF tags = <<>> THEN Err("Tags cannot be empty")
    ELSE IF ~(limit \in 1..100)
    THEN Err("Limit can only be between 1 and 100")
    ELSE Ok([tags |-> tags, limit |-> limit, pid |-> pid])

\* BatchGetter::build
BatchGetterBuild(tags, num_imgs) ==
    IF tags = <<>> THEN Err("Tags cannot be empty")
    ELSE IF num_imgs = 0 THEN Err("Number of images cannot be 0")
    ELSE Ok([tags |-> tags, num_imgs |-> num_imgs])

\* Config::validate: #[validate(length(min = 1))] on tags.
ConfigValidate(tags) ==
    IF Len(tags) >= 1 THEN Ok(tags) ELSE Err("tags must not be empty")

\* The posts with the identifiers from..to, in that order.
RECURSIVE PostIds(_, _)
PostIds(from, to) ==
    IF from > to THEN <<>> ELSE <<from>> \o PostIds(from + 1, to)

\* The Json the server answers a request with: it announces count posts and
\* serves the posts 1..avail in pages of limit posts; a page with no post
\* has no post field.
ServerPage(avail, count, limit, pid) ==
    LET post == PostIds(pid * limit + 1, Min(avail, (pid + 1) * limit))
    IN [attributes |-> [limit |-> Len(post), offset |-> pid * limit,
                        count |-> count],
        post |-> IF post = <<>> THEN None ELSE Some(post)]

\* Vec::truncate left out.
truncate_skipped(vec, len) == vec

\* Vec::truncate
truncate(vec, len) == IF len < Len(vec) THEN SubSeq(vec, 1, len) ELSE vec

\* Nothing of src/api.rs is in use.
ApiIdle ==
    [pc |-> "idle", entry |-> "none", tags |-> <<>>, limit |-> 0, pid |-> 0,
     num_imgs |-> 0, count |-> 0, avail |-> 0, getter |-> None,
     batch_getter |-> None, requests |-> <<>>, served |-> <<>>,
     post_vec |-> <<>>, total_num |-> 0, current_pid |-> 0,
     result |-> None]

\* ------------------------------------------- src/scheduler.rs, the rate
\* The interval of update_speed, in milliseconds.
SPEED_UPDATE_MS == 1000

\* u64 on a target whose usize is as wide as u64, scaled with the counter:
\* the smallest counters times 1000 fit the word, the largest ones,
\* UsizeModulus - 1 among them, do not.
U64Bits == UsizeBits + 9
U64Modulus == 2 ^ U64Bits

\* (current_size * 1000) / elapsed in u64.  With debug assertions an
\* overflowing product panics, without them it wraps; a zero divisor
\* panics in every build.
Speed(current_size, elapsed, debug) ==
    IF debug /\ current_size * 1000 >= U64Modulus
    THEN [panic |-> "attempt to multiply with overflow", val |-> 0]
    ELSE IF elapsed = 0
    THEN [panic |-> "attempt to divide by zero", val |-> 0]
    ELSE [panic |-> "",
          val |-> ((current_size * 1000) % U64Modulus) \div elapsed]

\* update_speed is not followed with its timer.
ClockIdle ==
    [now |-> 0, deadline |-> 0, last_instant |-> 0, prefix |-> 0,
     shown |-> 0, base |-> 0, done_at |-> None, debug |-> FALSE]

\* No rate is being computed.
CalcIdle ==
    [pc |-> "idle", current_size |-> 0, elapsed |-> 0, debug |-> FALSE,
     speed |-> None]

\* ------------------------------------------------------------- src/tool.rs
\* A path inside the download directory is a file stem and an extension.
Exts == {"jpg", "txt", NoExt}
Paths == [stem : 1..MaxPosts, ext : Exts]
NoPath == [stem |-> 0, ext |-> NoExt]

\* PathBuf::set_file_stem: the new stem keeps the old extension, if any.
set_file_stem(path, stem) == [stem |-> stem, ext |-> path.ext]

\* PathBuf::with_extension, as single_download uses it for the tag file.
with_extension(path, ext) == [stem |-> path.stem, ext |-> ext]

\* -------------------------------------------------------------- src/api.rs
\* impl From<PostInner> for Post: filename is the id with image's extension.
PostFrom(inner) ==
    [id |-> inner.id, md5 |-> inner.md5, tags |-> inner.tags,
     filename |-> set_file_stem(inner.image, inner.id)]

\* --------------------------------------------------------- src/scheduler.rs
\* str::replace(' ', ", ") of the tag string.
RECURSIVE ReplaceSpaces(_)
ReplaceSpaces(tags) ==
    IF tags = <<>> THEN <<>>
    ELSE (IF Head(tags) = SPACE THEN <<COMMA, SPACE>> ELSE <<Head(tags)>>)
         \o ReplaceSpaces(Tail(tags))

\* check_file_existed without the or_else: NotFound is returned as an error.
check_file_existed_strict(file, hashed_value, io) ==
    LET r == hash_file(file, io)
    IN IF r.ok THEN IoOk(r.val = hashed_value)
       ELSE IoErr(r.kind)

\* check_file_existed trusting the file name: whatever can be hashed exists.
check_file_existed_by_name(file, hashed_value, io) ==
    LET r == hash_file(file, io)
    IN IF r.ok THEN IoOk(TRUE)
       ELSE IF r.kind = "NotFound" THEN IoOk(FALSE)
       ELSE IoErr(r.kind)

\* Scheduler::check_file_existed
check_file_existed(file, hashed_value, io) ==
    LET r == hash_file(file, io)
    IN IF r.ok THEN IoOk(r.val = hashed_value)
       ELSE IF r.kind = "NotFound" THEN IoOk(FALSE)
       ELSE IoErr(r.kind)

\* tool::NUM_CPUS is read once per process; the model draws it in Init.
\* ------------------------------------------------------------------ state
VARIABLES
    NUM_CPUS,           \* tool::NUM_CPUS, the host parallelism (>= 1)
    api_post_data,      \* Scheduler.api_post_data: the post records
    disk,               \* the download directory: path -> content or Absent
    launch_pc,          \* where Scheduler::launch is: "uncalled",
                        \* "arrange", "join", "returned", "panicked" or
                        \* "dropped"
    spawned,            \* number of records the arranging loop has spawned
    semaphore,          \* available permits of the Semaphore
    task_pc,            \* where each single_download task is
    task_result,        \* the value each finished task returned
    response,           \* per task: the rest of the response being streamed
    file_buf,           \* per task: bytes handed to the BufWriter so far
    download_join_set,  \* tasks spawned and not yet joined
    status,             \* DownloadStatus of update_status
    status_pc,          \* where update_status is
    process_bar,        \* [alive: strong handle exists, pos: position]
    stderr,             \* diagnostics printed by update_status
    speed_pc,           \* where update_speed is
    speed_cursor,       \* [alive: the Arc exists, val: the AtomicUsize]
    io_log,             \* per task: the I/O steps it has performed, and
                        \* "skip" for a chunk whose increment was skipped
    delivered,          \* per task: outcomes update_status took from it
    undrained,          \* chunk lengths passed to fetch_add so far, minus
                        \* the values update_speed has swapped out so far
    checked,            \* per task: the call of check_file_existed it made
    answered,           \* per task: the status of the response it got
    started,            \* per task: the length its response declared,
                        \* the fault that struck while build set the file
                        \* up, and the bytes the response body is made of
    blocking_pool,      \* per task: the file operation it had handed to
                        \* the runtime's blocking pool when it was
                        \* cancelled, until that is carried out or dropped
                        \* ---- outside Scheduler::launch ----
    download_dir,       \* what sits at the download directory's path:
                        \* "missing", "dir" or "file"
    main_pc,            \* where main is: "build", "returned" (nothing to
                        \* download), "build_failed", "launch",
                        \* "interrupted" or "exited" (after the interrupt)
                        \* ---- the library functions on their own ----
    hashing,            \* a call of hash_file: its position, the file,
                        \* the buffer, the hasher, the bytes fed to the
                        \* hasher so far and the value returned
    api,                \* a use of src/api.rs: the arguments, the values
                        \* built, the requests sent and the value returned
    clock,              \* update_speed with its timer: the time in ms,
                        \* the deadline of the interval, last_instant, the
                        \* rate on display, and when update_status ended
    speed_calc          \* one computation of the rate: the operands, the
                        \* build and the outcome

vars == <<NUM_CPUS, api_post_data, disk, launch_pc, spawned, semaphore,
          task_pc, task_result, response, file_buf, download_join_set,
          status, status_pc, process_bar, stderr, speed_pc, speed_cursor,
          io_log, delivered, undrained, checked, answered,
          started, blocking_pool,
          download_dir, main_pc, hashing, api, clock, speed_calc>>

\* The calls of the library functions that are modelled on their own.
lib_vars == <<hashing, api, clock, speed_calc>>

\* The variables no step of launch or of its tasks changes.
other_vars == <<download_dir, main_pc, lib_vars>>

Items == 1..MaxPosts
N == Len(api_post_data)

FilePath(i) == api_post_data[i].filename
TagFilePath(i) == with_extension(FilePath(i), "txt")

\* SingleDownloadResult and the anyhow error with its context.
OkResult(tag) == [tag |-> tag, ctx |-> "", path |-> NoPath, kind |-> ""]
ErrResult(ctx, path, kind) ==
    [tag |-> "Err", ctx |-> ctx, path |-> path, kind |-> kind]
NoResult == OkResult("none")

NoResponse == [chunks |-> <<>>, rx_err |-> FALSE]

\* No file operation of the task is left on the blocking pool.
NoOp == [op |-> "none", buf |-> <<>>]

\* Task positions in which the task holds its permit.
HoldingPcs == {"check", "download", "create", "set_len", "stream", "tags"}
\* Task positions in which the task has ended.
EndedPcs == {"finished", "panicked", "cancelled"}

Holders == {i \in Items : task_pc[i] \in HoldingPcs}

\* ------------------------------------------------------------ initial state
RECURSIVE Ones(_)
Ones(n) == IF n = 0 THEN <<>> ELSE <<1>> \o Ones(n - 1)

Md5Of(content) == hash_file(File(content), "none").val

RECURSIVE ToUpper(_)
ToUpper(str) ==
    IF str = <<>> THEN <<>>
    ELSE LET c == Head(str)
             k == CHOOSE j \in 1..16 : HexLower[j] = c
         IN <<HexUpper[k]>> \o ToUpper(Tail(str))

\* The scheduler's data and the locals launch creates, before any step.
InitLocals(cpus, posts, files) ==
    /\ NUM_CPUS = cpus
    /\ api_post_data = posts
    /\ disk = files
    /\ spawned = 0
    /\ semaphore = cpus
    /\ task_pc = [i \in Items |-> "unspawned"]
    /\ task_result = [i \in Items |-> NoResult]
    /\ response = [i \in Items |-> NoResponse]
    /\ file_buf = [i \in Items |-> <<>>]
    /\ download_join_set = {}
    /\ status = [done |-> 0, existed |-> 0, failed |-> 0]
    /\ status_pc = "created"
    /\ process_bar = [alive |-> TRUE, pos |-> 0]
    /\ stderr = {}
    /\ speed_pc = "created"
    /\ speed_cursor = [alive |-> TRUE, val |-> 0]
    /\ io_log = [i \in Items |-> {}]
    /\ delivered = [i \in Items |-> 0]
    /\ undrained = 0
    /\ checked = [i \in Items |-> None]
    /\ answered = [i \in Items |-> None]
    /\ started = [i \in Items |-> None]
    /\ blocking_pool = [i \in Items |-> NoOp]

\* The state launch starts from, given the records and the directory.
InitRun(cpus, posts, files) ==
    /\ InitLocals(cpus, posts, files)
    /\ launch_pc = "arrange"
    /\ download_dir = "dir"
    /\ main_pc = "launch"
    /\ hashing = HashIdle
    /\ api = ApiIdle
    /\ \E debug \in BOOLEAN : clock = [ClockIdle EXCEPT !.debug = debug]
    /\ speed_calc = CalcIdle

\* Records of the scheduling model: every record expects the digest of <<1>>.
RunInner(i) ==
    [id |-> i, md5 |-> Md5Of(<<1>>), tags |-> <<CharA, SPACE, CharB>>,
     image |-> [stem |-> i, ext |-> "jpg"]]

RunPosts(n) == [i \in 1..n |-> PostFrom(RunInner(i))]

\* The scheduling model follows the build without debug assertions: the
\* panic of the checked multiplication leaves the state that the division
\* by an elapsed time of 0 leaves, which that build has as well, so that
\* the runs of the other build are among its runs.
Init ==
    /\ \E cpus \in 1..MaxCpus, n \in 0..MaxPosts :
       \E files \in [1..n -> {Absent, File(<<1>>)}] :
           InitRun(cpus, RunPosts(n),
                   [p \in Paths |->
                       IF p.ext = "jpg" /\ p.stem \in 1..n THEN files[p.stem]
                       ELSE Absent])
    /\ ~clock.debug

\* ------------------------------------------------------- src/download.rs
\* What the BufWriter and the file hold once the first n buffered bytes
\* have reached a file that was created (and maybe pre-allocated) as old.
Overlay(buffered, old) ==
    File(buffered \o SubSeq(old[1], Len(buffered) + 1, Len(old[1])))

\* build returning Ok without the flush: the buffered bytes stay behind.
flush_skipped(buffered, old) == old

\* file_buf.flush(): every buffered byte is written to the file.
flush(buffered, old) == Overlay(buffered, old)

\* A fault strikes only at a step build gets to: File::create follows a
\* response that error_for_status lets pass (any status but 400..=599),
\* set_len a declared length other than 0; a failing write or flush strikes
\* in the chunk loop.
FaultReached(resp, fault) ==
    \/ fault = "none"
    \/ /\ resp.sent
       /\ resp.status \notin 400..599
       /\ \/ fault = "create"
          \/ /\ fault = "set_len"
             /\ resp.content_length # None
             /\ resp.content_length[1] # 0

\* build with set_len(..).await? in place of the map_err: a failed
\* pre-allocation is converted by From<io::Error> like any other I/O error.
DownloadStartPlainIo(file, resp, fault) ==
    IF ~resp.sent \/ resp.status \in 400..599
    THEN [err |-> "Reqwest", file |-> file, created |-> FALSE]
    ELSE IF fault = "create"
    THEN [err |-> "Io", file |-> file, created |-> FALSE]
    ELSE IF resp.content_length = None
    THEN [err |-> "", file |-> File(<<>>), created |-> TRUE]
    ELSE IF resp.content_length[1] = 0
    THEN [err |-> "ZeroContentLength", file |-> File(<<>>),
          created |-> TRUE]
    ELSE IF fault = "set_len"
    THEN [err |-> "Io", file |-> File(<<>>), created |-> TRUE]
    ELSE [err |-> "", file |-> File(Zeros(resp.content_length[1])),
          created |-> TRUE]

\* DownloadFutureBuilder::build up to the chunk loop: send the request,
\* check the status, create the file and pre-allocate it.  resp is the
\* server's answer, fault the step at which the file system fails.
\* Returns the error kind ("" for none), the file left at the path and
\* whether the path was opened for writing.
DownloadStart(file, resp, fault) ==
    IF ~resp.sent \/ resp.status \in 400..599
    THEN [err |-> "Reqwest", file |-> file, created |-> FALSE]
    ELSE IF fault = "create"
    THEN [err |-> "Io", file |-> file, created |-> FALSE]
    ELSE IF resp.content_length = None
    THEN [err |-> "", file |-> File(<<>>), created |-> TRUE]
    ELSE IF resp.content_length[1] = 0
    THEN [err |-> "ZeroContentLength", file |-> File(<<>>),
          created |-> TRUE]
    ELSE IF fault = "set_len"
    THEN [err |-> "FileAllocationFailed", file |-> File(<<>>),
          created |-> TRUE]
    ELSE [err |-> "", file |-> File(Zeros(resp.content_length[1])),
          created |-> TRUE]

\* A cursor update that takes the counter for granted: upgrade().unwrap().
CursorAddUnwrap(cursor, chunk_len) ==
    IF cursor.alive
    THEN [cursor |-> [cursor EXCEPT !.val = (@ + chunk_len) % UsizeModulus],
          counted |-> chunk_len,
          overflow |-> cursor.val + chunk_len >= UsizeModulus]
    ELSE [cursor |-> cursor, counted |-> 0, overflow |-> TRUE]

\* The data-cursor update after a chunk was written: fetch_add wraps at the
\* width of usize, and the checked_add on the previous value decides whether
\* the task panics.  When upgrade() finds the counter gone, nothing happens.
CursorAdd(cursor, chunk_len) ==
    IF cursor.alive
    THEN [cursor |-> [cursor EXCEPT !.val = (@ + chunk_len) % UsizeModulus],
          counted |-> chunk_len,
          overflow |-> cursor.val + chunk_len >= UsizeModulus]
    ELSE [cursor |-> cursor, counted |-> 0, overflow |-> FALSE]

\* --------------------------------------------------------- src/scheduler.rs
\* launch spawning a single_download that does not wait for a permit.
SpawnNoPermit ==
    /\ launch_pc = "arrange"
    /\ spawned < N
    /\ spawned' = spawned + 1
    /\ task_pc' = [task_pc EXCEPT ![spawned + 1] = "check"]
    /\ download_join_set' = download_join_set \cup {spawned + 1}
    /\ UNCHANGED <<NUM_CPUS, api_post_data, disk, launch_pc, semaphore,
                   task_result, response, file_buf, status, status_pc,
                   process_bar, stderr, speed_pc, speed_cursor, io_log,
                   delivered, undrained>>
    /\ UNCHANGED <<checked, answered, started, blocking_pool, other_vars>>

\* launch: one iteration of the arranging loop spawns the next task.
Spawn ==
    /\ launch_pc = "arrange"
    /\ spawned < N
    /\ spawned' = spawned + 1
    /\ task_pc' = [task_pc EXCEPT ![spawned + 1] = "acquire"]
    /\ download_join_set' = download_join_set \cup {spawned + 1}
    /\ UNCHANGED <<NUM_CPUS, api_post_data, disk, launch_pc, semaphore,
                   task_result, response, file_buf, status, status_pc,
                   process_bar, stderr, speed_pc, speed_cursor, io_log,
                   delivered, undrained>>
    /\ UNCHANGED <<checked, answered, started, blocking_pool, other_vars>>

\* launch: the loop is over; update_speed and update_status are joined.
ArrangeDone ==
    /\ launch_pc = "arrange"
    /\ spawned = N
    /\ launch_pc' = "join"
    /\ status_pc' = "run"
    /\ speed_pc' = "first_tick"
    /\ UNCHANGED <<NUM_CPUS, api_post_data, disk, spawned, semaphore,
                   task_pc, task_result, response, file_buf,
                   download_join_set, status, process_bar, stderr,
                   speed_cursor, io_log, delivered, undrained>>
    /\ UNCHANGED <<checked, answered, started, blocking_pool, other_vars>>

\* single_download taking a permit without waiting for one.
AcquireNoWait(i) ==
    /\ task_pc[i] = "acquire"
    /\ semaphore' = semaphore - 1
    /\ task_pc' = [task_pc EXCEPT ![i] = "check"]
    /\ UNCHANGED <<NUM_CPUS, api_post_data, disk, launch_pc, spawned,
                   task_result, response, file_buf, download_join_set,
                   status, status_pc, process_bar, stderr, speed_pc,
                   speed_cursor, io_log, delivered, undrained>>
    /\ UNCHANGED <<checked, answered, started, blocking_pool, other_vars>>

\* single_download: semaphore.acquire() returns a permit.
Acquire(i) ==
    /\ task_pc[i] = "acquire"
    /\ semaphore > 0
    /\ semaphore' = semaphore - 1
    /\ task_pc' = [task_pc EXCEPT ![i] = "check"]
    /\ UNCHANGED <<NUM_CPUS, api_post_data, disk, launch_pc, spawned,
                   task_result, response, file_buf, download_join_set,
                   status, status_pc, process_bar, stderr, speed_pc,
                   speed_cursor, io_log, delivered, undrained>>
    /\ UNCHANGED <<checked, answered, started, blocking_pool, other_vars>>

\* A frame whose permit is released a second time when it is dropped.
DropFrameTwice(i) ==
    /\ semaphore' = semaphore + 2
    /\ response' = [response EXCEPT ![i] = NoResponse]
    /\ file_buf' = [file_buf EXCEPT ![i] = <<>>]

\* The task's frame is dropped: the permit goes back to the semaphore, the
\* response and the BufWriter are gone.
DropFrame(i) ==
    /\ semaphore' = semaphore + 1
    /\ response' = [response EXCEPT ![i] = NoResponse]
    /\ file_buf' = [file_buf EXCEPT ![i] = <<>>]

\* single_download returns res.
Return(i, res) ==
    /\ task_pc' = [task_pc EXCEPT ![i] = "finished"]
    /\ task_result' = [task_result EXCEPT ![i] = res]
    /\ DropFrame(i)

\* single_download going on to the download whatever the check returned.
CheckFileAlwaysDownload(i, io) ==
    /\ task_pc[i] = "check"
    /\ LET r == check_file_existed(disk[FilePath(i)],
                                   api_post_data[i].md5, io)
       IN IF ~r.ok
          THEN Return(i, ErrResult("check", FilePath(i), r.kind))
          ELSE /\ task_pc' = [task_pc EXCEPT ![i] = "download"]
               /\ UNCHANGED <<task_result, semaphore, response, file_buf>>
    /\ io_log' = [io_log EXCEPT ![i] = @ \cup {"hash"}]
    /\ UNCHANGED <<NUM_CPUS, api_post_data, disk, launch_pc, spawned,
                   download_join_set, status,
                   status_pc, process_bar, stderr, speed_pc, speed_cursor,
                   delivered, undrained>>
    /\ checked' = [checked EXCEPT ![i] =
           Some([file |-> disk[FilePath(i)], io |-> io,
                 ret |-> check_file_existed(disk[FilePath(i)],
                                            api_post_data[i].md5, io)])]
    /\ UNCHANGED <<answered, started, blocking_pool, other_vars>>

\* single_download: the existing-file check and what follows from it.
CheckFile(i, io) ==
    /\ task_pc[i] = "check"
    /\ LET r == check_file_existed(disk[FilePath(i)],
                                   api_post_data[i].md5, io)
       IN IF ~r.ok
          THEN Return(i, ErrResult("check", FilePath(i), r.kind))
          ELSE IF r.val
          THEN Return(i, OkResult("Existed"))
          ELSE /\ task_pc' = [task_pc EXCEPT ![i] = "download"]
               /\ UNCHANGED <<task_result, semaphore, response, file_buf>>
    /\ io_log' = [io_log EXCEPT ![i] = @ \cup {"hash"}]
    /\ UNCHANGED <<NUM_CPUS, api_post_data, disk, launch_pc, spawned,
                   download_join_set, status,
                   status_pc, process_bar, stderr, speed_pc, speed_cursor,
                   delivered, undrained>>
    /\ checked' = [checked EXCEPT ![i] =
           Some([file |-> disk[FilePath(i)], io |-> io,
                 ret |-> check_file_existed(disk[FilePath(i)],
                                            api_post_data[i].md5, io)])]
    /\ UNCHANGED <<answered, started, blocking_pool, other_vars>>

\* The answer task i holds, with the length its headers declare.
HeldResponse(i) ==
    [sent |-> TRUE, status |-> answered[i][1],
     content_length |-> started[i][1].content_length,
     chunks |-> response[i].chunks, rx_err |-> response[i].rx_err]

\* single_download awaits download_future: client.get(url).send() and
\* error_for_status.  resp is the server's answer and fault the step of the
\* set-up at which the file system will fail.
Request(i, resp, fault) ==
    /\ task_pc[i] = "download"
    /\ FaultReached(resp, fault)
    /\ LET r == DownloadStart(disk[FilePath(i)], resp, fault)
       IN IF r.err = "Reqwest"
          THEN Return(i, ErrResult("download", FilePath(i), r.err))
          ELSE /\ task_pc' = [task_pc EXCEPT ![i] = "create"]
               /\ response' = [response EXCEPT ![i] =
                      [chunks |-> resp.chunks, rx_err |-> resp.rx_err]]
               /\ UNCHANGED <<task_result, semaphore, file_buf>>
    /\ io_log' = [io_log EXCEPT ![i] = @ \cup {"request"}]
    /\ UNCHANGED <<NUM_CPUS, api_post_data, disk, launch_pc, spawned,
                   download_join_set, status, status_pc, process_bar,
                   stderr, speed_pc, speed_cursor, delivered, undrained>>
    /\ answered' = [answered EXCEPT ![i] =
           IF resp.sent THEN Some(resp.status) ELSE None]
    /\ started' = [started EXCEPT ![i] =
           Some([content_length |-> resp.content_length, fault |-> fault,
                 body |-> Flatten(resp.chunks)])]
    /\ UNCHANGED <<checked, blocking_pool, other_vars>>

\* What File::create(&file_path), once submitted, leaves at the path of
\* task i: the file is created or truncated unless the creation fails.
Created(i) ==
    IF DownloadStart(disk[FilePath(i)], HeldResponse(i),
                     started[i][1].fault).created
    THEN File(<<>>) ELSE disk[FilePath(i)]

\* download_future: File::create(&file_path).await, and the look at the
\* declared length that follows it without an await.
CreateFile(i) ==
    /\ task_pc[i] = "create"
    /\ LET r == DownloadStart(disk[FilePath(i)], HeldResponse(i),
                              started[i][1].fault)
           len == started[i][1].content_length
       IN /\ disk' = [disk EXCEPT ![FilePath(i)] = Created(i)]
          /\ io_log' = [io_log EXCEPT ![i] =
                 @ \cup (IF r.created THEN {"media"} ELSE {})]
          /\ IF ~r.created \/ (len # None /\ len[1] = 0)
             THEN Return(i, ErrResult("download", FilePath(i), r.err))
             ELSE /\ task_pc' = [task_pc EXCEPT ![i] =
                        IF len = None THEN "stream" ELSE "set_len"]
                  /\ UNCHANGED <<task_result, semaphore, response,
                                 file_buf>>
    /\ UNCHANGED <<NUM_CPUS, api_post_data, launch_pc, spawned,
                   download_join_set, status, status_pc, process_bar,
                   stderr, speed_pc, speed_cursor, delivered, undrained>>
    /\ UNCHANGED <<checked, answered, started, blocking_pool, other_vars>>

\* What set_len(content_length), once submitted, leaves at the path of
\* task i.
Allocated(i) ==
    DownloadStart(disk[FilePath(i)], HeldResponse(i),
                  started[i][1].fault).file

\* download_future: file_buf.get_ref().set_len(content_length).await.
SetLen(i) ==
    /\ task_pc[i] = "set_len"
    /\ LET r == DownloadStart(disk[FilePath(i)], HeldResponse(i),
                              started[i][1].fault)
       IN /\ disk' = [disk EXCEPT ![FilePath(i)] = Allocated(i)]
          /\ IF r.err # ""
             THEN Return(i, ErrResult("download", FilePath(i), r.err))
             ELSE /\ task_pc' = [task_pc EXCEPT ![i] = "stream"]
                  /\ UNCHANGED <<task_result, semaphore, response,
                                 file_buf>>
    /\ UNCHANGED <<NUM_CPUS, api_post_data, launch_pc, spawned,
                   download_join_set, status, status_pc, process_bar,
                   stderr, speed_pc, speed_cursor, io_log, delivered,
                   undrained>>
    /\ UNCHANGED <<checked, answered, started, blocking_pool, other_vars>>

\* The file when the BufWriter is dropped unflushed: keep of the buffered
\* bytes had already reached it.
Dropped(buffered, old, keep) ==
    Overlay(SubSeq(buffered, 1, Min(keep, Len(buffered))), old)

\* download_future: one turn of the chunk loop, or the flush after it.
Chunk(i, fault, keep) ==
    /\ task_pc[i] = "stream"
    /\ LET rest == response[i].chunks
       IN IF rest = <<>>
          THEN \* response.chunk() is Err, or None and the flush follows
               /\ IF response[i].rx_err \/ fault = "io"
                  THEN /\ disk' = [disk EXCEPT ![FilePath(i)] =
                                       Dropped(file_buf[i], @, keep)]
                       /\ Return(i, ErrResult("download", FilePath(i),
                              IF response[i].rx_err THEN "Reqwest"
                              ELSE "Io"))
                  ELSE /\ disk' = [disk EXCEPT ![FilePath(i)] =
                                       flush(file_buf[i], @)]
                       /\ task_pc' = [task_pc EXCEPT ![i] = "tags"]
                       /\ UNCHANGED <<task_result, semaphore, response,
                                      file_buf>>
               /\ UNCHANGED <<speed_cursor, undrained>>
          ELSE IF fault = "io"
          THEN \* write_all_buf fails
               /\ disk' = [disk EXCEPT ![FilePath(i)] =
                               Dropped(file_buf[i], @, keep)]
               /\ Return(i, ErrResult("download", FilePath(i), "Io"))
               /\ UNCHANGED <<speed_cursor, undrained>>
          ELSE LET chunk == Head(rest)
                   c == CursorAdd(speed_cursor, Len(chunk))
               IN /\ speed_cursor' = c.cursor
                  /\ undrained' = undrained + c.counted
                  /\ IF c.overflow
                     THEN \* panic!("Data cursor overflow")
                          /\ task_pc' = [task_pc EXCEPT ![i] = "panicked"]
                          /\ DropFrame(i)
                          /\ disk' = [disk EXCEPT ![FilePath(i)] =
                                 Dropped(file_buf[i] \o chunk, @, keep)]
                          /\ UNCHANGED task_result
                     ELSE /\ file_buf' = [file_buf EXCEPT ![i] = @ \o chunk]
                          /\ response' = [response EXCEPT
                                             ![i].chunks = Tail(rest)]
                          /\ UNCHANGED <<task_pc, task_result, semaphore,
                                         disk>>
    /\ io_log' = IF /\ response[i].chunks # <<>>
                    /\ fault # "io"
                    /\ ~speed_cursor.alive
                 THEN [io_log EXCEPT ![i] = @ \cup {"skip"}]
                 ELSE io_log
    /\ UNCHANGED <<NUM_CPUS, api_post_data, launch_pc, spawned,
                   download_join_set, status, status_pc, process_bar,
                   stderr, speed_pc, delivered>>
    /\ UNCHANGED <<checked, answered, started, blocking_pool, other_vars>>

\* The text single_download writes to the tag file of record i.
TagText(i) == ReplaceSpaces(api_post_data[i].tags)

\* How many bytes of text a write that fails may have put in the file
\* before it failed: any proper prefix.  A write of no bytes cannot fail.
PartialLens(text) == 0..(Len(text) - 1)

\* The prefix lengths n that go with the fault of a write of text: the
\* failing write stops after n bytes, the others have no use for n.
Stops(text, fault, n) ==
    IF fault = "write" THEN n \in PartialLens(text) ELSE n = 0

\* tokio::fs::write(path, text): what is at the path afterwards.  The file
\* is created or truncated and the text written; fault "create" fails the
\* creation, fault "write" fails the write after n bytes of the text.
fs_write(old, text, fault, n) ==
    IF fault = "none" THEN File(text)
    ELSE IF fault = "create" THEN old
    ELSE File(SubSeq(text, 1, n))

\* single_download dropping the result of the tag write.
WriteTagsIgnoreErr(i, fault) ==
    /\ task_pc[i] = "tags"
    /\ \E n \in 0..Len(TagText(i)) :
         /\ Stops(TagText(i), fault, n)
         /\ disk' = [disk EXCEPT ![TagFilePath(i)] =
                        fs_write(@, TagText(i), fault, n)]
    /\ io_log' = IF fault = "create" THEN io_log
                 ELSE [io_log EXCEPT ![i] = @ \cup {"sidecar"}]
    /\ Return(i, OkResult("Done"))
    /\ UNCHANGED <<NUM_CPUS, api_post_data, launch_pc, spawned,
                   download_join_set, status, status_pc, process_bar,
                   stderr, speed_pc, speed_cursor, delivered, undrained>>
    /\ UNCHANGED <<checked, answered, started, blocking_pool, other_vars>>

\* single_download: tokio::fs::write of the tag file, then Ok(Done).
WriteTags(i, fault) ==
    /\ task_pc[i] = "tags"
    /\ \E n \in 0..Len(TagText(i)) :
         /\ Stops(TagText(i), fault, n)
         /\ disk' = [disk EXCEPT ![TagFilePath(i)] =
                        fs_write(@, TagText(i), fault, n)]
    /\ io_log' = IF fault = "create" THEN io_log
                 ELSE [io_log EXCEPT ![i] = @ \cup {"sidecar"}]
    /\ IF fault = "none"
       THEN Return(i, OkResult("Done"))
       ELSE Return(i, ErrResult("tags", TagFilePath(i), "Io"))
    /\ UNCHANGED <<NUM_CPUS, api_post_data, launch_pc, spawned,
                   download_join_set, status, status_pc, process_bar,
                   stderr, speed_pc, speed_cursor, delivered, undrained>>
    /\ UNCHANGED <<checked, answered, started, blocking_pool, other_vars>>

\* The match arms without their separation: an error also counts as done.
CountResultMiscount(st, res) ==
    IF res.tag = "Existed" THEN [st EXCEPT !.existed = @ + 1]
    ELSE IF res.tag = "Done" THEN [st EXCEPT !.done = @ + 1]
    ELSE [st EXCEPT !.failed = @ + 1, !.done = @ + 1]

\* update_status: the match on one task result.
CountResult(st, res) ==
    IF res.tag = "Done" THEN [st EXCEPT !.done = @ + 1]
    ELSE IF res.tag = "Existed" THEN [st EXCEPT !.existed = @ + 1]
    ELSE [st EXCEPT !.failed = @ + 1]

\* The line eprintln!("{:#}", err) prints: context, path and cause.
Diagnostic(res) == [ctx |-> res.ctx, path |-> res.path, kind |-> res.kind]

\* update_status counting a task that did not return as a failed item.
JoinNextCountPanic(i) ==
    /\ status_pc = "run"
    /\ i \in download_join_set
    /\ task_pc[i] \in EndedPcs
    /\ status' = IF task_pc[i] = "finished"
                 THEN CountResult(status, task_result[i])
                 ELSE [status EXCEPT !.failed = @ + 1]
    /\ stderr' = IF task_pc[i] = "finished" /\ task_result[i].tag = "Err"
                 THEN stderr \cup {Diagnostic(task_result[i])}
                 ELSE stderr
    /\ process_bar' = [process_bar EXCEPT !.pos = @ + 1]
    /\ delivered' = [delivered EXCEPT ![i] = @ + 1]
    /\ download_join_set' = download_join_set \ {i}
    /\ UNCHANGED <<launch_pc, status_pc, speed_pc, speed_cursor>>
    /\ UNCHANGED <<NUM_CPUS, api_post_data, disk, spawned, semaphore,
                   task_pc, task_result, response, file_buf, io_log,
                   undrained>>
    /\ UNCHANGED <<checked, answered, started, blocking_pool, other_vars>>

\* update_status advancing the bar only for Done and Existed.
JoinNextNoIncOnError(i) ==
    /\ status_pc = "run"
    /\ i \in download_join_set
    /\ task_pc[i] \in EndedPcs
    /\ IF task_pc[i] = "finished"
       THEN /\ status' = CountResult(status, task_result[i])
            /\ stderr' = IF task_result[i].tag = "Err"
                         THEN stderr \cup {Diagnostic(task_result[i])}
                         ELSE stderr
            /\ process_bar' = IF task_result[i].tag = "Err" THEN process_bar
                              ELSE [process_bar EXCEPT !.pos = @ + 1]
            /\ delivered' = [delivered EXCEPT ![i] = @ + 1]
            /\ download_join_set' = download_join_set \ {i}
            /\ UNCHANGED <<launch_pc, status_pc, speed_pc, speed_cursor>>
       ELSE /\ launch_pc' = "panicked"
            /\ status_pc' = "panicked"
            /\ speed_pc' = "dropped"
            /\ process_bar' = [process_bar EXCEPT !.alive = FALSE]
            /\ speed_cursor' = [speed_cursor EXCEPT !.alive = FALSE]
            /\ download_join_set' = {}
            /\ UNCHANGED <<status, stderr, delivered>>
    /\ UNCHANGED <<NUM_CPUS, api_post_data, disk, spawned, semaphore,
                   task_pc, task_result, response, file_buf, io_log, undrained>>
    /\ UNCHANGED <<checked, answered, started, blocking_pool, other_vars>>

\* update_status awaiting the tasks in the order they were spawned.
JoinNextInOrder(i) ==
    /\ status_pc = "run"
    /\ i \in download_join_set
    /\ \A j \in download_join_set : i <= j
    /\ task_pc[i] \in EndedPcs
    /\ IF task_pc[i] = "finished"
       THEN /\ status' = CountResult(status, task_result[i])
            /\ stderr' = IF task_result[i].tag = "Err"
                         THEN stderr \cup {Diagnostic(task_result[i])}
                         ELSE stderr
            /\ process_bar' = [process_bar EXCEPT !.pos = @ + 1]
            /\ delivered' = [delivered EXCEPT ![i] = @ + 1]
            /\ download_join_set' = download_join_set \ {i}
            /\ UNCHANGED <<launch_pc, status_pc, speed_pc, speed_cursor>>
       ELSE /\ launch_pc' = "panicked"
            /\ status_pc' = "panicked"
            /\ speed_pc' = "dropped"
            /\ process_bar' = [process_bar EXCEPT !.alive = FALSE]
            /\ speed_cursor' = [speed_cursor EXCEPT !.alive = FALSE]
            /\ download_join_set' = {}
            /\ UNCHANGED <<status, stderr, delivered>>
    /\ UNCHANGED <<NUM_CPUS, api_post_data, disk, spawned, semaphore,
                   task_pc, task_result, response, file_buf, io_log, undrained>>
    /\ UNCHANGED <<checked, answered, started, blocking_pool, other_vars>>

\* update_status: join_next() yields task i.  A returned result is counted;
\* a panic is resumed and a cancellation panics, which unwinds launch and
\* drops the progress bar, the speed cursor and the JoinSet.
JoinNext(i) ==
    /\ status_pc = "run"
    /\ i \in download_join_set
    /\ task_pc[i] \in EndedPcs
    /\ IF task_pc[i] = "finished"
       THEN /\ status' = CountResult(status, task_result[i])
            /\ stderr' = IF task_result[i].tag = "Err"
                         THEN stderr \cup {Diagnostic(task_result[i])}
                         ELSE stderr
            /\ process_bar' = [process_bar EXCEPT !.pos = @ + 1]
            /\ delivered' = [delivered EXCEPT ![i] = @ + 1]
            /\ download_join_set' = download_join_set \ {i}
            /\ UNCHANGED <<launch_pc, status_pc, speed_pc, speed_cursor>>
       ELSE /\ launch_pc' = "panicked"
            /\ status_pc' = "panicked"
            /\ speed_pc' = "dropped"
            /\ process_bar' = [process_bar EXCEPT !.alive = FALSE]
            /\ speed_cursor' = [speed_cursor EXCEPT !.alive = FALSE]
            /\ download_join_set' = {}
            /\ UNCHANGED <<status, stderr, delivered>>
    /\ UNCHANGED <<NUM_CPUS, api_post_data, disk, spawned, semaphore,
                   task_pc, task_result, response, file_buf, io_log, undrained>>
    /\ UNCHANGED <<checked, answered, started, blocking_pool, other_vars>>

\* update_status leaving its loop while tasks are still in the set.
StatusDoneEarly ==
    /\ status_pc = "run"
    /\ status_pc' = "done"
    /\ process_bar' = [process_bar EXCEPT !.alive = FALSE]
    /\ UNCHANGED <<NUM_CPUS, api_post_data, disk, launch_pc, spawned,
                   semaphore, task_pc, task_result, response, file_buf,
                   download_join_set, status, stderr, speed_pc,
                   speed_cursor, io_log, delivered, undrained>>
    /\ UNCHANGED <<checked, answered, started, blocking_pool, other_vars>>

\* update_status: join_next() yields None; the bar is finished and dropped.
StatusDone ==
    /\ status_pc = "run"
    /\ download_join_set = {}
    /\ status_pc' = "done"
    /\ process_bar' = [process_bar EXCEPT !.alive = FALSE]
    /\ UNCHANGED <<NUM_CPUS, api_post_data, disk, launch_pc, spawned,
                   semaphore, task_pc, task_result, response, file_buf,
                   download_join_set, status, stderr, speed_pc,
                   speed_cursor, io_log, delivered, undrained>>
    /\ UNCHANGED <<checked, answered, started, blocking_pool, other_vars>>

\* The file operation task i is waiting for at its await point, as it sits
\* in the blocking pool of the runtime: the creation of the file, its
\* pre-allocation, the write of the buffered bytes, the write of the tag
\* file.
Submitted(i) ==
    IF task_pc[i] \in {"create", "set_len", "tags"}
    THEN [op |-> task_pc[i], buf |-> <<>>]
    ELSE IF task_pc[i] = "stream" /\ file_buf[i] # <<>>
    THEN [op |-> "write", buf |-> file_buf[i]]
    ELSE NoOp

\* A task of a dropped JoinSet is cancelled at an await point: its frame
\* is dropped, and the permit with it.  The file operation it awaited
\* there stays with the blocking pool.
Abort(i) ==
    /\ launch_pc \in {"panicked", "dropped"}
    /\ task_pc[i] \in {"acquire"} \cup HoldingPcs
    /\ task_pc' = [task_pc EXCEPT ![i] = "cancelled"]
    /\ IF task_pc[i] \in HoldingPcs THEN DropFrame(i)
       ELSE UNCHANGED <<semaphore, response, file_buf>>
    /\ blocking_pool' = [blocking_pool EXCEPT ![i] = Submitted(i)]
    /\ UNCHANGED <<NUM_CPUS, api_post_data, disk, launch_pc, spawned,
                   task_result, download_join_set,
                   status, status_pc, process_bar, stderr, speed_pc,
                   speed_cursor, io_log, delivered, undrained>>
    /\ UNCHANGED <<checked, answered, started, other_vars>>

\* A thread of the blocking pool carries out the operation a cancelled
\* task left there.  keep of the buffered bytes reach the file; fault is
\* what the file system does to the write of the tag file.
PoolRuns(i, keep, fault) ==
    /\ blocking_pool[i].op # "none"
    /\ blocking_pool[i].op # "write" => keep = 0
    /\ blocking_pool[i].op # "tags" => fault = "none"
    /\ LET op == blocking_pool[i].op
       IN /\ \E n \in 0..Len(TagText(i)) :
               /\ Stops(TagText(i), fault, n)
               /\ disk' =
                    IF op = "create"
                    THEN [disk EXCEPT ![FilePath(i)] = Created(i)]
                    ELSE IF op = "set_len"
                    THEN [disk EXCEPT ![FilePath(i)] = Allocated(i)]
                    ELSE IF op = "write"
                    THEN [disk EXCEPT ![FilePath(i)] =
                             Dropped(blocking_pool[i].buf, @, keep)]
                    ELSE [disk EXCEPT ![TagFilePath(i)] =
                             fs_write(@, TagText(i), fault, n)]
          /\ io_log' =
               IF /\ op = "create"
                  /\ DownloadStart(disk[FilePath(i)], HeldResponse(i),
                                   started[i][1].fault).created
               THEN [io_log EXCEPT ![i] = @ \cup {"media"}]
               ELSE IF op = "tags" /\ fault # "create"
               THEN [io_log EXCEPT ![i] = @ \cup {"sidecar"}]
               ELSE io_log
    /\ blocking_pool' = [blocking_pool EXCEPT ![i] = NoOp]
    /\ UNCHANGED <<NUM_CPUS, api_post_data, launch_pc, spawned, semaphore,
                   task_pc, task_result, response, file_buf,
                   download_join_set, status, status_pc, process_bar,
                   stderr, speed_pc, speed_cursor, delivered, undrained>>
    /\ UNCHANGED <<checked, answered, started, other_vars>>

\* The runtime is dropped while the operation of a cancelled task is still
\* queued: the blocking pool discards it.
PoolDrops(i) ==
    /\ launch_pc \in {"panicked", "dropped"}
    /\ blocking_pool[i].op # "none"
    /\ blocking_pool' = [blocking_pool EXCEPT ![i] = NoOp]
    /\ UNCHANGED <<NUM_CPUS, api_post_data, disk, launch_pc, spawned,
                   semaphore, task_pc, task_result, response, file_buf,
                   download_join_set, status, status_pc, process_bar,
                   stderr, speed_pc, speed_cursor, io_log, delivered,
                   undrained>>
    /\ UNCHANGED <<checked, answered, started, other_vars>>

\* A task that is still polled while the runtime shuts down finds the
\* blocking pool closed.  The file operation it awaits is refused: the
\* File::open of the check, File::create, set_len, the write of buffered
\* bytes in the chunk loop or the flush, the write of the tag file.  The
\* await ends in the error of that operation, with the context of the
\* await and with nothing done to the file.  For the check that is
\* check_file_existed returning the error of File::open.
Refused(i) ==
    /\ launch_pc \in {"panicked", "dropped"}
    /\ \/ task_pc[i] \in {"check", "create", "set_len", "tags"}
       \/ task_pc[i] = "stream" /\ file_buf[i] # <<>>
    /\ Return(i, IF task_pc[i] = "check"
                 THEN ErrResult("check", FilePath(i), "Other")
                 ELSE IF task_pc[i] = "set_len"
                 THEN ErrResult("download", FilePath(i),
                                "FileAllocationFailed")
                 ELSE IF task_pc[i] = "tags"
                 THEN ErrResult("tags", TagFilePath(i), "Io")
                 ELSE ErrResult("download", FilePath(i), "Io"))
    /\ io_log' = [io_log EXCEPT ![i] = @ \cup {"refused"}]
    /\ checked' = IF task_pc[i] = "check"
                  THEN [checked EXCEPT ![i] =
                          Some([file |-> disk[FilePath(i)], io |-> "Other",
                                ret |-> check_file_existed(
                                            disk[FilePath(i)],
                                            api_post_data[i].md5,
                                            "Other")])]
                  ELSE checked
    /\ UNCHANGED <<NUM_CPUS, api_post_data, disk, launch_pc, spawned,
                   download_join_set, status, status_pc, process_bar,
                   stderr, speed_pc, speed_cursor, delivered, undrained>>
    /\ UNCHANGED <<answered, started, blocking_pool, other_vars>>

\* update_speed: speed_cursor.swap(0), then the check of the weak bar.
SwapAndCheck ==
    /\ undrained' = undrained - speed_cursor.val
    /\ IF process_bar.alive
       THEN /\ speed_pc' = "loop"
            /\ speed_cursor' = [speed_cursor EXCEPT !.val = 0]
       ELSE /\ speed_pc' = "stopped"
            /\ speed_cursor' = [alive |-> FALSE, val |-> 0]

\* update_speed: the first tick, whose sample is ignored.
SpeedFirstTick ==
    /\ speed_pc = "first_tick"
    /\ SwapAndCheck
    /\ UNCHANGED <<NUM_CPUS, api_post_data, disk, launch_pc, spawned,
                   semaphore, task_pc, task_result, response, file_buf,
                   download_join_set, status, status_pc, process_bar,
                   stderr, io_log, delivered>>
    /\ UNCHANGED <<checked, answered, started, blocking_pool, other_vars>>

\* update_speed: one turn of the sampling loop, its tick completing
\* elapsed milliseconds after last_instant.  The counter is swapped to 0
\* and the rate computed; a panic of the multiplication or of the division
\* unwinds launch, which drops update_status, the bar, the counter and the
\* JoinSet.  Otherwise the weak bar is checked.
SpeedTick(elapsed) ==
    /\ speed_pc = "loop"
    /\ IF Speed(speed_cursor.val, elapsed, clock.debug).panic # ""
       THEN /\ undrained' = undrained - speed_cursor.val
            /\ speed_pc' = "panicked"
            /\ launch_pc' = "panicked"
            /\ status_pc' = IF status_pc = "done" THEN "done" ELSE "dropped"
            /\ process_bar' = [process_bar EXCEPT !.alive = FALSE]
            /\ speed_cursor' = [alive |-> FALSE, val |-> 0]
            /\ download_join_set' = {}
       ELSE /\ SwapAndCheck
            /\ UNCHANGED <<launch_pc, status_pc, process_bar,
                           download_join_set>>
    /\ UNCHANGED <<NUM_CPUS, api_post_data, disk, spawned, semaphore,
                   task_pc, task_result, response, file_buf, status,
                   stderr, io_log, delivered>>
    /\ UNCHANGED <<checked, answered, started, blocking_pool, other_vars>>

\* launch with select! in place of join!: it returns as soon as
\* update_status is done.
LaunchReturnSelect ==
    /\ launch_pc = "join"
    /\ status_pc = "done"
    /\ launch_pc' = "returned"
    /\ UNCHANGED <<NUM_CPUS, api_post_data, disk, spawned, semaphore,
                   task_pc, task_result, response, file_buf,
                   download_join_set, status, status_pc, process_bar,
                   stderr, speed_pc, speed_cursor, io_log, delivered,
                   undrained>>
    /\ UNCHANGED <<checked, answered, started, blocking_pool, other_vars>>

\* launch: join! is over, launch returns.
LaunchReturn ==
    /\ launch_pc = "join"
    /\ status_pc = "done"
    /\ speed_pc = "stopped"
    /\ launch_pc' = "returned"
    /\ UNCHANGED <<NUM_CPUS, api_post_data, disk, spawned, semaphore,
                   task_pc, task_result, response, file_buf,
                   download_join_set, status, status_pc, process_bar,
                   stderr, speed_pc, speed_cursor, io_log, delivered,
                   undrained>>
    /\ UNCHANGED <<checked, answered, started, blocking_pool, other_vars>>

\* ------------------------------------------------- inputs of the run model
RunCheckIo == {"none", "PermissionDenied"}

Response(sent, st, len, chunks, rx_err) ==
    [sent |-> sent, status |-> st, content_length |-> len,
     chunks |-> chunks, rx_err |-> rx_err]

RunResponses ==
    {Response(TRUE, 500, None, <<>>, FALSE),
     Response(TRUE, 200, Some(0), <<>>, FALSE),
     Response(TRUE, 200, Some(1), <<<<1>>>>, FALSE),
     Response(TRUE, 200, None, <<Ones(UsizeModulus - 1), <<2>>>>, FALSE)}

RunFaults == {"none", "set_len"}
\* Milliseconds a tick of update_speed completes after last_instant: a
\* period, or none when the tick was overdue as it was awaited.
RunElapsed == {0, SPEED_UPDATE_MS}
RunTagFaults == {"none", "create"}
\* Bytes of the buffer that had reached the file when the BufWriter was
\* dropped: none, or all of them.
RunKeep == {0, UsizeModulus}

\* One step of task i, with the answers the environment may give.
TaskStepWith(i, checkIo, responses, faults, tagFaults, keeps) ==
    \/ Acquire(i)
    \/ \E io \in checkIo : CheckFile(i, io)
    \/ \E resp \in responses, fault \in faults : Request(i, resp, fault)
    \/ CreateFile(i)
    \/ SetLen(i)
    \/ \E fault \in faults, keep \in keeps : Chunk(i, fault, keep)
    \/ \E fault \in tagFaults : WriteTags(i, fault)
    \/ Refused(i)

TaskStep(i) ==
    TaskStepWith(i, RunCheckIo, RunResponses, RunFaults, RunTagFaults,
                 RunKeep)

Next ==
    \/ Spawn
    \/ ArrangeDone
    \/ \E i \in Items : TaskStep(i)
    \/ \E i \in Items : JoinNext(i)
    \/ StatusDone
    \/ \E i \in Items : Abort(i)
    \/ \E i \in Items, keep \in RunKeep, fault \in RunTagFaults :
         PoolRuns(i, keep, fault)
    \/ \E i \in Items : PoolDrops(i)
    \/ SpeedFirstTick
    \/ \E elapsed \in RunElapsed : SpeedTick(elapsed)
    \/ LaunchReturn

Spec == Init /\ [][Next]_vars

\* ---------------------------------------------- inputs of the item model
\* One record, with every kind of record, directory content, server answer
\* and file-system fault.
ItemMd5s == {Md5Of(<<1>>), ToUpper(Md5Of(<<1>>)), Md5Of(<<2>>)}
ItemTags == {<<CharA>>, <<CharA, SPACE, CharB>>, <<SPACE, CharA, SPACE>>}
ItemFiles == {Absent, File(<<>>), File(<<1>>), File(<<2>>)}

ItemInners ==
    {[id |-> 1, md5 |-> m, tags |-> t, image |-> [stem |-> 1, ext |-> e]] :
        m \in ItemMd5s, t \in ItemTags, e \in Exts}

ItemBodies ==
    {<<>>, <<<<1>>>>, <<<<2>>>>, <<<<1>>, <<2>>>>, <<<<2, 1>>>>,
     <<Ones(UsizeModulus - 1), <<2>>>>}

ItemResponses ==
    {Response(FALSE, 0, None, <<>>, FALSE)} \cup
    {Response(TRUE, st, len, <<>>, FALSE) :
        st \in {404, 500}, len \in {None, Some(0)}} \cup
    {r \in {Response(TRUE, 200, len, body, e) :
                len \in {None, Some(0), Some(1), Some(2)},
                body \in ItemBodies, e \in BOOLEAN}
            \cup {Response(TRUE, 304, len, body, FALSE) :
                    len \in {None, Some(0), Some(1)},
                    body \in {<<>>, <<<<1>>>>}} :
        \* a body with a declared length ends at that length or in an error
        r.content_length # None =>
            /\ Len(Flatten(r.chunks)) <= r.content_length[1]
            /\ ~r.rx_err => Len(Flatten(r.chunks)) = r.content_length[1]}

ItemCheckIo == {"none", "PermissionDenied", "IsADirectory"}
ItemFaults == {"none", "create", "set_len", "io"}
ItemTagFaults == {"none", "create", "write"}
\* Bytes of the buffer that had reached the file when the write stopped:
\* any number up to the longest body.
ItemKeep == 0..UsizeModulus

ItemInit ==
    \E cpus \in 1..MaxCpus, inner \in ItemInners, media \in ItemFiles :
        InitRun(cpus, <<PostFrom(inner)>>,
                [p \in Paths |->
                    IF p = PostFrom(inner).filename THEN media
                    ELSE Absent])

ItemNext ==
    \/ Spawn
    \/ ArrangeDone
    \/ \E i \in Items :
           TaskStepWith(i, ItemCheckIo, ItemResponses, ItemFaults,
                        ItemTagFaults, ItemKeep)
    \/ \E i \in Items : JoinNext(i)
    \/ StatusDone
    \/ \E i \in Items : Abort(i)
    \/ \E i \in Items, keep \in ItemKeep, fault \in ItemTagFaults :
         PoolRuns(i, keep, fault)
    \/ \E i \in Items : PoolDrops(i)
    \/ SpeedFirstTick
    \/ \E elapsed \in RunElapsed : SpeedTick(elapsed)
    \/ LaunchReturn

ItemSpec == ItemInit /\ [][ItemNext]_vars

\* ------------------------------------------------------------- src/main.rs
\* tokio::fs::create_dir_all: a directory that is there is left alone, a
\* missing one is created unless the file system refuses, and a file at the
\* path is an error.
create_dir_all(dir, fault) ==
    IF dir = "dir" THEN IoOk("dir")
    ELSE IF dir = "file" THEN IoErr("AlreadyExists")
    ELSE IF fault # "none" THEN IoErr(fault)
    ELSE IoOk("dir")

\* Scheduler::build going on to launch whatever ensure returned.
BuildUnchecked(fault) ==
    /\ main_pc = "build"
    /\ N > 0
    /\ download_dir # "missing" => fault = "none"
    /\ LET r == create_dir_all(download_dir, fault)
       IN /\ download_dir' = IF r.ok THEN r.val ELSE download_dir
          /\ main_pc' = "launch"
          /\ launch_pc' = "arrange"
    /\ UNCHANGED <<NUM_CPUS, api_post_data, disk, spawned, semaphore,
                   task_pc, task_result, response, file_buf,
                   download_join_set, status, status_pc, process_bar,
                   stderr, speed_pc, speed_cursor, io_log, delivered,
                   undrained, checked, answered, started, blocking_pool>>
    /\ UNCHANGED lib_vars

\* async_main: Scheduler::build ensures the download directory; on an error
\* async_main returns it, otherwise launch is called.
Build(fault) ==
    /\ main_pc = "build"
    /\ N > 0
    /\ download_dir # "missing" => fault = "none"  \* nothing to create
    /\ LET r == create_dir_all(download_dir, fault)
       IN IF r.ok
          THEN /\ download_dir' = r.val
               /\ main_pc' = "launch"
               /\ launch_pc' = "arrange"
          ELSE /\ main_pc' = "build_failed"
               /\ UNCHANGED <<download_dir, launch_pc>>
    /\ UNCHANGED <<NUM_CPUS, api_post_data, disk, spawned, semaphore,
                   task_pc, task_result, response, file_buf,
                   download_join_set, status, status_pc, process_bar,
                   stderr, speed_pc, speed_cursor, io_log, delivered,
                   undrained, checked, answered, started, blocking_pool>>
    /\ UNCHANGED lib_vars

\* async_main: there is no record; it returns Ok without building anything.
ReturnEmpty ==
    /\ main_pc = "build"
    /\ N = 0
    /\ main_pc' = "returned"
    /\ UNCHANGED <<NUM_CPUS, api_post_data, disk, launch_pc, spawned,
                   semaphore, task_pc, task_result, response, file_buf,
                   download_join_set, status, status_pc, process_bar,
                   stderr, speed_pc, speed_cursor, io_log, delivered,
                   undrained, checked, answered,
                   started, blocking_pool, download_dir>>
    /\ UNCHANGED lib_vars

\* main with async_main spawned as a task of its own: the ctrl_c branch
\* ends block_on but drops only a JoinHandle, and launch goes on.
InterruptDetached ==
    /\ main_pc = "launch"
    /\ launch_pc \in {"arrange", "join"}
    /\ main_pc' = "interrupted"
    /\ UNCHANGED <<NUM_CPUS, api_post_data, disk, spawned, semaphore,
                   task_pc, task_result, response, file_buf, status, stderr,
                   io_log, delivered, undrained, checked, answered,
                   started, blocking_pool,
                   download_dir, launch_pc, status_pc, speed_pc,
                   process_bar, speed_cursor, download_join_set>>
    /\ UNCHANGED lib_vars

\* main: the ctrl_c branch of select! completes first.  The future of
\* async_main is dropped.  Inside launch that drops launch and all it owns:
\* the progress bar, the speed cursor and the JoinSet, whose tasks are
\* thereby aborted.  While Scheduler::build awaits create_dir_all, launch
\* is never called and the creation that was submitted is still to land.
Interrupt ==
    /\ \/ main_pc = "launch" /\ launch_pc \in {"arrange", "join"}
       \/ main_pc = "build" /\ N > 0
    /\ IF main_pc = "build"
       THEN /\ main_pc' = "interrupted_build"
            /\ UNCHANGED <<launch_pc, status_pc, speed_pc, process_bar,
                           speed_cursor, download_join_set>>
       ELSE /\ main_pc' = "interrupted"
            /\ launch_pc' = "dropped"
            /\ status_pc' = IF status_pc = "done" THEN "done"
                            ELSE "dropped"
            /\ speed_pc' = IF speed_pc = "stopped" THEN "stopped"
                           ELSE "dropped"
            /\ process_bar' = [process_bar EXCEPT !.alive = FALSE]
            /\ speed_cursor' = [speed_cursor EXCEPT !.alive = FALSE]
            /\ download_join_set' = {}
    /\ UNCHANGED <<NUM_CPUS, api_post_data, disk, spawned, semaphore,
                   task_pc, task_result, response, file_buf, status, stderr,
                   io_log, delivered, undrained, checked, answered,
                   started, blocking_pool,
                   download_dir>>
    /\ UNCHANGED lib_vars

\* The create_dir_all that Scheduler::build had submitted when it was
\* dropped is carried out by the blocking pool.
EnsureLands(fault) ==
    /\ main_pc = "interrupted_build"
    /\ download_dir # "missing" => fault = "none"
    /\ LET r == create_dir_all(download_dir, fault)
       IN download_dir' = IF r.ok THEN r.val ELSE download_dir
    /\ main_pc' = "interrupted"
    /\ UNCHANGED <<NUM_CPUS, api_post_data, disk, launch_pc, spawned,
                   semaphore, task_pc, task_result, response, file_buf,
                   download_join_set, status, status_pc, process_bar,
                   stderr, speed_pc, speed_cursor, io_log, delivered,
                   undrained, checked, answered, started, blocking_pool>>
    /\ UNCHANGED lib_vars

\* main: block_on has returned Ok after the interrupt; the runtime is
\* dropped, which ends once every task has ended or was cancelled, and the
\* process exits.
Exit ==
    /\ main_pc = "interrupted"
    /\ \A i \in Items : task_pc[i] \in EndedPcs \cup {"unspawned"}
    /\ \A i \in Items : blocking_pool[i] = NoOp
    /\ main_pc' = "exited"
    /\ UNCHANGED <<NUM_CPUS, api_post_data, disk, launch_pc, spawned,
                   semaphore, task_pc, task_result, response, file_buf,
                   download_join_set, status, status_pc, process_bar,
                   stderr, speed_pc, speed_cursor, io_log, delivered,
                   undrained, checked, answered,
                   started, blocking_pool, download_dir>>
    /\ UNCHANGED lib_vars

MainDirs == {"missing", "dir", "file"}
MainDirFaults == {"none", "PermissionDenied"}

\* async_main has the records BatchGetter::run returned.
MainInit ==
    \E cpus \in 1..MaxCpus, n \in 0..MaxPosts, dir \in MainDirs :
    \E files \in [1..n -> IF dir = "dir" THEN {Absent, File(<<1>>)}
                           ELSE {Absent}] :
        /\ InitLocals(cpus, RunPosts(n),
                      [p \in Paths |->
                          IF p.ext = "jpg" /\ p.stem \in 1..n
                          THEN files[p.stem]
                          ELSE Absent])
        /\ launch_pc = "uncalled"
        /\ download_dir = dir
        /\ main_pc = "build"
        /\ hashing = HashIdle
        /\ api = ApiIdle
        /\ \E debug \in BOOLEAN : clock = [ClockIdle EXCEPT !.debug = debug]
        /\ speed_calc = CalcIdle

\* The answers of the server in the model of main: an error status or a
\* body of one chunk.
MainResponses ==
    {Response(TRUE, 500, None, <<>>, FALSE),
     Response(TRUE, 200, Some(1), <<<<1>>>>, FALSE)}

MainNext ==
    \/ \E fault \in MainDirFaults : Build(fault)
    \/ ReturnEmpty
    \/ Interrupt
    \/ \E fault \in MainDirFaults : EnsureLands(fault)
    \/ Exit
    \/ Spawn
    \/ ArrangeDone
    \/ \E i \in Items :
           TaskStepWith(i, {"none"}, MainResponses, {"none"}, {"none"},
                        RunKeep)
    \/ \E i \in Items : JoinNext(i)
    \/ StatusDone
    \/ \E i \in Items : Abort(i)
    \/ \E i \in Items, keep \in RunKeep, fault \in {"none"} :
         PoolRuns(i, keep, fault)
    \/ \E i \in Items : PoolDrops(i)
    \/ SpeedFirstTick
    \/ \E elapsed \in RunElapsed : SpeedTick(elapsed)
    \/ LaunchReturn

MainSpec == MainInit /\ [][MainNext]_vars

\* Dropping the runtime cancels every task that is left and ends; it needs
\* no step of any task for that.
MainFairness ==
    /\ \A i \in Items :
         /\ WF_vars(Abort(i))
         /\ WF_vars(PoolDrops(i))
    /\ WF_vars(\E fault \in MainDirFaults : EnsureLands(fault))
    /\ WF_vars(Exit)

MainFairSpec == MainSpec /\ MainFairness

\* The runtime polls every spawned task and the two joined futures again
\* and again, the timer of update_speed keeps firing, and every I/O step of
\* a task ends.
Fairness ==
    /\ WF_vars(Spawn)
    /\ WF_vars(ArrangeDone)
    /\ \A i \in Items : WF_vars(TaskStep(i))
    /\ \A i \in Items : WF_vars(JoinNext(i))
    /\ WF_vars(StatusDone)
    /\ WF_vars(SpeedFirstTick)
    /\ WF_vars(\E elapsed \in RunElapsed : SpeedTick(elapsed))
    /\ WF_vars(LaunchReturn)

FairSpec == Spec /\ Fairness

\* ------------------------------------------- src/hash.rs, read by read
\* The variables of Scheduler::launch and of main.
sched_vars == <<NUM_CPUS, api_post_data, disk, launch_pc, spawned, semaphore,
                task_pc, task_result, response, file_buf, download_join_set,
                status, status_pc, process_bar, stderr, speed_pc,
                speed_cursor, io_log, delivered, undrained, checked,
                answered, started, blocking_pool, download_dir, main_pc>>

MaxFileLen == 3

HashBytes == {1, 2}

RECURSIVE SeqsUpTo(_, _)
SeqsUpTo(S, n) ==
    IF n = 0 THEN {<<>>}
    ELSE LET shorter == SeqsUpTo(S, n - 1)
         IN shorter \cup {Append(q, x) : q \in shorter, x \in S}

\* The files hash_file is called on: none at the path, or any content.
HashFiles == {Absent} \cup {File(c) : c \in SeqsUpTo(HashBytes, MaxFileLen)}

HashIoFaults == {"none", "PermissionDenied"}

\* file.read(&mut buf) that returned n bytes: they fill the front of buf and
\* the bytes behind them stay what they were.
ReadInto(buf, data) == data \o SubSeq(buf, Len(data) + 1, Len(buf))

\* hasher.update(&buf) with the whole buffer, whatever the read returned.
buf_whole(buf, n) == buf

\* &buf.as_mut()[0..n]: the bytes the last read returned.
buf_slice(buf, n) == SubSeq(buf, 1, n)

\* hash_file up to the loop: File::open and metadata fail with the error of
\* the file system, otherwise the buffer and the hasher are created.
HashOpen(io) ==
    /\ hashing.pc = "open"
    /\ hashing' =
         IF io # "none"
         THEN [hashing EXCEPT !.pc = "done", !.result = Some(IoErr(io))]
         ELSE IF hashing.file = Absent
         THEN [hashing EXCEPT !.pc = "done", !.result = Some(IoErr("NotFound"))]
         ELSE LET file_size == Len(hashing.file[1])
                  buf_size == Min(DEFAULT_BUF_SIZE, file_size)
              IN [hashing EXCEPT !.pc = "read",
                                 !.buf = Zeros(buf_size),
                                 !.rest = hashing.file[1],
                                 !.hasher = DigestNew]
    /\ UNCHANGED <<sched_vars, api, clock, speed_calc>>

\* One turn of the loop: the read fails, or returns n bytes, between 1 and
\* what both the buffer and the rest of the file allow, or 0 when one of
\* them is empty.  n = 0 ends the loop and the digest is encoded; otherwise
\* the n bytes are fed to the hasher.
HashRead(n, io) ==
    /\ hashing.pc = "read"
    /\ LET most == Min(Len(hashing.buf), Len(hashing.rest))
       IN /\ n \in 0..most
          /\ n = 0 <=> most = 0
    /\ hashing' =
         IF io # "none"
         THEN [hashing EXCEPT !.pc = "done", !.result = Some(IoErr(io))]
         ELSE IF n = 0
         THEN [hashing EXCEPT
                   !.pc = "done",
                   !.result = Some(IoOk(encode_string(hashing.hasher)))]
         ELSE LET buf == ReadInto(hashing.buf, SubSeq(hashing.rest, 1, n))
              IN [hashing EXCEPT
                     !.buf = buf,
                     !.rest = SubSeq(hashing.rest, n + 1, Len(hashing.rest)),
                     !.hasher = DigestUpdate(hashing.hasher, buf_slice(buf, n)),
                     !.fed = hashing.fed \o buf_slice(buf, n)]
    /\ UNCHANGED <<sched_vars, api, clock, speed_calc>>

\* hash_file is called on a file; nothing else runs.
HashInit ==
    /\ InitLocals(1, <<>>, [p \in Paths |-> Absent])
    /\ launch_pc = "uncalled"
    /\ download_dir = "dir"
    /\ main_pc = "build"
    /\ api = ApiIdle
    /\ clock = ClockIdle
    /\ speed_calc = CalcIdle
    /\ \E f \in HashFiles : hashing = [HashIdle EXCEPT !.pc = "open", !.file = f]

HashNext ==
    \/ \E io \in HashIoFaults : HashOpen(io)
    \/ \E n \in 0..MaxFileLen, io \in HashIoFaults : HashRead(n, io)

HashSpec == HashInit /\ [][HashNext]_vars

\* ------------------------------------------- src/api.rs, call by call
MaxPages == 2

\* Numbers of posts around the page boundaries.
ApiSizes == {0, 1} \cup {k * LIMIT + d : k \in 1..MaxPages, d \in {0, 1}}
ApiTags == {<<>>, <<CharA>>}
ApiLimits == {0, 1, LIMIT, LIMIT + 1}
ApiPids == {0, 1}

\* Getter::run sends one request; sent is what was sent before it.
SendRequest(sent, getter) == Append(sent, getter)

\* BatchGetter::run after a page was added to post_vec: the loop goes on
\* while post_vec is shorter than total_num, then the vector is truncated
\* and returned.
BatchCollect(a, post_vec) ==
    IF Len(post_vec) < a.total_num
    THEN [a EXCEPT !.pc = "paging", !.post_vec = post_vec]
    ELSE [a EXCEPT !.pc = "done",
                   !.post_vec = truncate(post_vec, a.total_num),
                   !.result = Some(Ok(truncate(post_vec, a.total_num)))]

\* cli: the Config that was parsed is validated; a Config that fails never
\* reaches async_main.
ValidateConfig ==
    /\ api.pc = "start"
    /\ api.entry = "config"
    /\ LET r == ConfigValidate(api.tags)
       IN api' = IF r.ok THEN [api EXCEPT !.pc = "config_ok"]
                 ELSE [api EXCEPT !.pc = "rejected", !.result = Some(r)]
    /\ UNCHANGED <<sched_vars, hashing, clock, speed_calc>>

\* BatchGetter::build called by async_main, which expects Ok, or by a user
\* of the library.
BuildBatchGetter ==
    /\ \/ api.pc = "start" /\ api.entry = "batch"
       \/ api.pc = "config_ok"
    /\ LET r == BatchGetterBuild(api.tags, api.num_imgs)
       IN api' = IF r.ok
                 THEN [api EXCEPT !.pc = "batch_built",
                                  !.batch_getter = Some(r.val)]
                 ELSE IF api.pc = "config_ok"
                 THEN [api EXCEPT !.pc = "panicked"]
                 ELSE [api EXCEPT !.pc = "rejected", !.result = Some(r)]
    /\ UNCHANGED <<sched_vars, hashing, clock, speed_calc>>

\* Getter::build called by a user of the library.
BuildGetter ==
    /\ api.pc = "start"
    /\ api.entry = "getter"
    /\ LET r == GetterBuild(api.tags, api.limit, api.pid)
       IN api' = IF r.ok
                 THEN [api EXCEPT !.pc = "getter_built",
                                  !.getter = Some(r.val)]
                 ELSE [api EXCEPT !.pc = "rejected", !.result = Some(r)]
    /\ UNCHANGED <<sched_vars, hashing, clock, speed_calc>>

\* Getter::run: the request is sent and fails, or the Json is returned.
RunGetter(fail) ==
    /\ api.pc = "getter_built"
    /\ LET g == api.getter[1]
           data == ServerPage(api.avail, api.count, g.limit, g.pid)
       IN api' = [api EXCEPT
                     !.pc = "done",
                     !.requests = SendRequest(api.requests, g),
                     !.served = IF fail THEN @ ELSE Append(@, data.post),
                     !.result = Some(IF fail THEN Err("Reqwest")
                                     ELSE Ok(data))]
    /\ UNCHANGED <<sched_vars, hashing, clock, speed_calc>>

\* BatchGetter::run up to the loop: the page pid = 0 is requested; without
\* a post field the empty vector is returned, otherwise total_num is set.
\* debug says whether debug assertions are compiled in.
BatchFirstPage(fail, debug) ==
    /\ api.pc = "batch_built"
    /\ LET bg == api.batch_getter[1]
           g == GetterBuild(bg.tags, LIMIT, 0)
       IN IF ~g.ok
          THEN api' = [api EXCEPT !.pc = "panicked"]
          ELSE LET data == ServerPage(api.avail, api.count, LIMIT, 0)
                   sent == [api EXCEPT
                               !.getter = Some(g.val),
                               !.requests = SendRequest(@, g.val)]
                   total_num == Min(bg.num_imgs, data.attributes.count)
               IN api' =
                    IF fail
                    THEN [sent EXCEPT !.pc = "done",
                                      !.result = Some(Err("Reqwest"))]
                    ELSE IF data.post = None
                    THEN [sent EXCEPT !.pc = "done",
                                      !.served = Append(@, None),
                                      !.result = Some(Ok(<<>>))]
                    ELSE IF debug /\ total_num = 0
                    THEN [sent EXCEPT !.pc = "panicked",
                                      !.served = Append(@, data.post)]
                    ELSE BatchCollect(
                             [sent EXCEPT !.served = Append(@, data.post),
                                          !.total_num = total_num],
                             data.post[1])
    /\ UNCHANGED <<sched_vars, hashing, clock, speed_calc>>

\* One turn of the loop of BatchGetter::run: the next page is requested; a
\* page without a post field is a panic (expect), otherwise its posts are
\* appended.
BatchNextPage(fail) ==
    /\ api.pc = "paging"
    /\ LET bg == api.batch_getter[1]
           current_pid == api.current_pid + 1
           g == GetterBuild(bg.tags, LIMIT, current_pid)
       IN IF ~g.ok
          THEN api' = [api EXCEPT !.pc = "panicked"]
          ELSE LET data == ServerPage(api.avail, api.count, LIMIT,
                                      current_pid)
                   sent == [api EXCEPT
                               !.current_pid = current_pid,
                               !.getter = Some(g.val),
                               !.requests = SendRequest(@, g.val)]
               IN api' =
                    IF fail
                    THEN [sent EXCEPT !.pc = "done",
                                      !.result = Some(Err("Reqwest"))]
                    ELSE IF data.post = None
                    THEN [sent EXCEPT !.pc = "panicked",
                                      !.served = Append(@, None)]
                    ELSE BatchCollect(
                             [sent EXCEPT !.served = Append(@, data.post)],
                             api.post_vec \o data.post[1])
    /\ UNCHANGED <<sched_vars, hashing, clock, speed_calc>>

\* The arguments of one use of the api module, by way of the Config
\* (num_imgs is a NonZeroU64 there), of BatchGetter or of Getter, and the
\* posts the server has for the tags.
ApiInit ==
    /\ InitLocals(1, <<>>, [p \in Paths |-> Absent])
    /\ launch_pc = "uncalled"
    /\ download_dir = "dir"
    /\ main_pc = "build"
    /\ hashing = HashIdle
    /\ clock = ClockIdle
    /\ speed_calc = CalcIdle
    /\ \E entry \in {"config", "batch", "getter"}, tags \in ApiTags,
          count \in ApiSizes :
       \E avail \in {a \in ApiSizes : a <= count},
          num_imgs \in IF entry = "getter" THEN {0}
                       ELSE IF entry = "config" THEN ApiSizes \ {0}
                       ELSE ApiSizes,
          limit \in IF entry = "getter" THEN ApiLimits ELSE {0},
          pid \in IF entry = "getter" THEN ApiPids ELSE {0} :
           api = [ApiIdle EXCEPT !.pc = "start", !.entry = entry,
                                 !.tags = tags, !.limit = limit,
                                 !.pid = pid, !.num_imgs = num_imgs,
                                 !.count = count, !.avail = avail]

ApiNext ==
    \/ ValidateConfig
    \/ BuildBatchGetter
    \/ BuildGetter
    \/ \E fail \in BOOLEAN : RunGetter(fail)
    \/ \E fail \in BOOLEAN, debug \in BOOLEAN : BatchFirstPage(fail, debug)
    \/ \E fail \in BOOLEAN : BatchNextPage(fail)

ApiSpec == ApiInit /\ [][ApiNext]_vars

\* ----------------------------------- src/scheduler.rs, one rate computed
\* Values of the counter on a target whose usize is as wide as u64, around
\* the largest value whose product with 1000 fits.
CalcSizes ==
    {0, 1, 2, 1000, (U64Modulus \div 1000) - 1, U64Modulus \div 1000,
     (U64Modulus \div 1000) + 1, U64Modulus \div 2, U64Modulus - 1}

\* Milliseconds between last_instant and the end of the tick.
CalcElapsed == {0, 1, 2, 999, SPEED_UPDATE_MS, SPEED_UPDATE_MS + 500}

\* update_speed has swapped current_size out of the counter and measured
\* elapsed.
CalcInit ==
    /\ InitLocals(1, <<>>, [p \in Paths |-> Absent])
    /\ launch_pc = "uncalled"
    /\ download_dir = "dir"
    /\ main_pc = "build"
    /\ hashing = HashIdle
    /\ api = ApiIdle
    /\ clock = ClockIdle
    /\ \E size \in CalcSizes, ms \in CalcElapsed, debug \in BOOLEAN :
         speed_calc = [CalcIdle EXCEPT !.pc = "start",
                                       !.current_size = size,
                                       !.elapsed = ms, !.debug = debug]

\* update_speed: let speed = (current_size * 1000) / elapsed.
ComputeSpeed ==
    /\ speed_calc.pc = "start"
    /\ speed_calc' =
         [speed_calc EXCEPT
            !.pc = "done",
            !.speed = Some(Speed(speed_calc.current_size,
                                 speed_calc.elapsed, speed_calc.debug))]
    /\ UNCHANGED <<sched_vars, hashing, api, clock>>

CalcNext == ComputeSpeed

CalcSpec == CalcInit /\ [][CalcNext]_vars

\* ------------------------------- src/scheduler.rs, update_speed in time
\* The run is followed for MaxTicks periods of the interval.
MaxTime == MaxTicks * SPEED_UPDATE_MS

\* Milliseconds the body of update_speed may take between the end of a tick
\* and the next Instant::now() (the swap, the division, set_prefix drawing
\* the bar): none, less than a period, one millisecond less than a period,
\* a whole period.
Stalls == {0, 400, SPEED_UPDATE_MS - 1, SPEED_UPDATE_MS}

\* Milliseconds by which time moves on while update_speed awaits its tick,
\* besides the time left to its deadline.
AdvanceSteps == {500, 1500}

\* Milliseconds left until the tick update_speed awaits is due.
DueIn == clock.deadline - clock.now

SamplerResponses ==
    {Response(TRUE, 200, Some(3), <<<<1>>, <<1, 1>>>>, FALSE),
     Response(TRUE, 200, None, <<Ones(UsizeModulus - 1), <<2>>>>, FALSE)}

\* tokio's Interval with MissedTickBehavior::Delay: the deadline after a
\* tick that was due at timeout and completed at now.  A tick late by more
\* than 5 ms restarts the period from now.
NextDeadline(timeout, now) ==
    IF now > timeout + 5 THEN now + SPEED_UPDATE_MS
    ELSE timeout + SPEED_UPDATE_MS

\* launch starts at time 0 with at most one record, whose file is absent.
SamplerInit ==
    /\ \E n \in 0..1 :
         InitLocals(1, RunPosts(n), [p \in Paths |-> Absent])
    /\ launch_pc = "arrange"
    /\ download_dir = "dir"
    /\ main_pc = "launch"
    /\ hashing = HashIdle
    /\ api = ApiIdle
    /\ speed_calc = CalcIdle
    /\ \E debug \in BOOLEAN : clock = [ClockIdle EXCEPT !.debug = debug]

\* Time passes while launch arranges the tasks or update_speed awaits its
\* tick; the tick completes when update_speed is polled next at or after
\* its deadline, which may be late.
Advance(d) ==
    /\ d > 0
    /\ \/ launch_pc = "arrange"
       \/ launch_pc = "join" /\ speed_pc = "loop" /\ clock.now < clock.deadline
    /\ clock.now + d <= MaxTime
    /\ clock' = [clock EXCEPT !.now = clock.now + d]
    /\ UNCHANGED <<sched_vars, download_dir, main_pc, hashing, api,
                   speed_calc>>

\* update_speed whose first tick leaves the counter as it is.
TimedFirstTickNoSwap(stall) ==
    /\ speed_pc = "first_tick"
    /\ process_bar.alive \/ stall = 0
    /\ clock.now + stall <= MaxTime
    /\ speed_pc' = IF process_bar.alive THEN "loop" ELSE "stopped"
    /\ speed_cursor' = IF process_bar.alive THEN speed_cursor
                       ELSE [alive |-> FALSE, val |-> 0]
    /\ clock' = [clock EXCEPT
                   !.now = clock.now + stall,
                   !.last_instant = clock.now + stall,
                   !.deadline = clock.now + SPEED_UPDATE_MS,
                   !.base = undrained]
    /\ UNCHANGED <<NUM_CPUS, api_post_data, disk, launch_pc, spawned,
                   semaphore, task_pc, task_result, response, file_buf,
                   download_join_set, status, status_pc, process_bar,
                   stderr, io_log, delivered, undrained>>
    /\ UNCHANGED <<checked, answered,
                   started, blocking_pool, download_dir, main_pc,
                   hashing, api, speed_calc>>

\* update_speed: the interval is created and its first tick completes at
\* once; the counter is swapped to 0 and the value dropped, the weak bar is
\* checked, and last_instant is taken stall milliseconds later.
TimedFirstTick(stall) ==
    /\ speed_pc = "first_tick"
    /\ process_bar.alive \/ stall = 0
    /\ clock.now + stall <= MaxTime
    /\ SwapAndCheck
    /\ clock' = [clock EXCEPT
                   !.now = clock.now + stall,
                   !.last_instant = clock.now + stall,
                   !.deadline = clock.now + SPEED_UPDATE_MS,
                   !.base = undrained']
    /\ UNCHANGED <<NUM_CPUS, api_post_data, disk, launch_pc, spawned,
                   semaphore, task_pc, task_result, response, file_buf,
                   download_join_set, status, status_pc, process_bar,
                   stderr, io_log, delivered>>
    /\ UNCHANGED <<checked, answered,
                   started, blocking_pool, download_dir, main_pc,
                   hashing, api, speed_calc>>

\* update_speed: a tick of the loop completes.  elapsed is measured from
\* last_instant, the counter is swapped to 0 and the rate computed; a
\* panic of the division unwinds launch, which drops update_status, the
\* bar, the counter and the JoinSet.  Otherwise the rate is displayed if
\* the bar is alive, and last_instant is taken stall milliseconds later;
\* if the bar is gone update_speed returns.
TimedTick(stall) ==
    /\ speed_pc = "loop"
    /\ clock.now >= clock.deadline
    /\ clock.now + stall <= MaxTime
    /\ LET elapsed == clock.now - clock.last_instant
           current_size == speed_cursor.val
           speed == Speed(current_size, elapsed, clock.debug)
           timed == [clock EXCEPT
                       !.deadline = NextDeadline(clock.deadline, clock.now),
                       !.base = undrained - current_size]
       IN  /\ undrained' = undrained - current_size
           /\ IF speed.panic # ""
              THEN /\ stall = 0
                   /\ speed_pc' = "panicked"
                   /\ launch_pc' = "panicked"
                   /\ status_pc' = IF status_pc = "done" THEN "done"
                                   ELSE "dropped"
                   /\ process_bar' = [process_bar EXCEPT !.alive = FALSE]
                   /\ speed_cursor' = [alive |-> FALSE, val |-> 0]
                   /\ download_join_set' = {}
                   /\ clock' = timed
              ELSE IF process_bar.alive
              THEN /\ speed_pc' = "loop"
                   /\ speed_cursor' = [speed_cursor EXCEPT !.val = 0]
                   /\ clock' = [timed EXCEPT
                                  !.prefix = speed.val,
                                  !.shown = @ + 1,
                                  !.now = clock.now + stall,
                                  !.last_instant = clock.now + stall]
                   /\ UNCHANGED <<launch_pc, status_pc, process_bar,
                                  download_join_set>>
              ELSE /\ stall = 0
                   /\ speed_pc' = "stopped"
                   /\ speed_cursor' = [alive |-> FALSE, val |-> 0]
                   /\ clock' = timed
                   /\ UNCHANGED <<launch_pc, status_pc, process_bar,
                                  download_join_set>>
    /\ UNCHANGED <<NUM_CPUS, api_post_data, disk, spawned, semaphore,
                   task_pc, task_result, response, file_buf, status,
                   stderr, io_log, delivered>>
    /\ UNCHANGED <<checked, answered,
                   started, blocking_pool, download_dir, main_pc,
                   hashing, api, speed_calc>>

\* update_status: join_next() yields None; the bar is finished and dropped,
\* at the time the clock shows.
TimedStatusDone ==
    /\ status_pc = "run"
    /\ download_join_set = {}
    /\ status_pc' = "done"
    /\ process_bar' = [process_bar EXCEPT !.alive = FALSE]
    /\ clock' = [clock EXCEPT !.done_at = Some(clock.now)]
    /\ UNCHANGED <<NUM_CPUS, api_post_data, disk, launch_pc, spawned,
                   semaphore, task_pc, task_result, response, file_buf,
                   download_join_set, status, stderr, speed_pc,
                   speed_cursor, io_log, delivered, undrained>>
    /\ UNCHANGED <<checked, answered,
                   started, blocking_pool, download_dir, main_pc,
                   hashing, api, speed_calc>>

SamplerNext ==
    \/ Spawn
    \/ ArrangeDone
    \/ \E i \in Items :
         TaskStepWith(i, {"none"}, SamplerResponses, {"none"}, {"none"},
                      RunKeep)
    \/ \E i \in Items : JoinNext(i)
    \/ TimedStatusDone
    \/ \E i \in Items : Abort(i)
    \/ \E i \in Items, keep \in RunKeep, fault \in {"none"} :
         PoolRuns(i, keep, fault)
    \/ \E i \in Items : PoolDrops(i)
    \/ \E stall \in Stalls : TimedFirstTick(stall)
    \/ \E stall \in Stalls : TimedTick(stall)
    \/ \E d \in AdvanceSteps \cup {DueIn} : Advance(d)
    \/ LaunchReturn

SamplerSpec == SamplerInit /\ [][SamplerNext]_vars

\* ----------------------------------- src/scheduler.rs, launch run again
\* Answers and faults of the runs that follow one another: a transfer
\* succeeds or is refused, the tag file is written or cannot be created.
RerunResponses ==
    {Response(TRUE, 500, None, <<>>, FALSE),
     Response(TRUE, 200, Some(1), <<<<1>>>>, FALSE)}

RerunTagFaults == {"none", "create"}

\* The first run starts in an empty directory.
RerunInit ==
    \E cpus \in 1..MaxCpus, n \in 1..MaxPosts :
        InitRun(cpus, RunPosts(n), [p \in Paths |-> Absent])

\* The program is started again with the same records: launch begins anew
\* on the directory the run before it left.
Rerun ==
    /\ launch_pc = "returned"
    /\ launch_pc' = "arrange"
    /\ spawned' = 0
    /\ semaphore' = NUM_CPUS
    /\ task_pc' = [i \in Items |-> "unspawned"]
    /\ task_result' = [i \in Items |-> NoResult]
    /\ response' = [i \in Items |-> NoResponse]
    /\ file_buf' = [i \in Items |-> <<>>]
    /\ download_join_set' = {}
    /\ status' = [done |-> 0, existed |-> 0, failed |-> 0]
    /\ status_pc' = "created"
    /\ process_bar' = [alive |-> TRUE, pos |-> 0]
    /\ stderr' = {}
    /\ speed_pc' = "created"
    /\ speed_cursor' = [alive |-> TRUE, val |-> 0]
    /\ io_log' = [i \in Items |-> {}]
    /\ delivered' = [i \in Items |-> 0]
    /\ undrained' = 0
    /\ checked' = [i \in Items |-> None]
    /\ answered' = [i \in Items |-> None]
    /\ started' = [i \in Items |-> None]
    /\ UNCHANGED <<NUM_CPUS, api_post_data, disk, blocking_pool, other_vars>>

RerunNext ==
    \/ Spawn
    \/ ArrangeDone
    \/ \E i \in Items :
         TaskStepWith(i, {"none"}, RerunResponses, {"none"},
                      RerunTagFaults, RunKeep)
    \/ \E i \in Items : JoinNext(i)
    \/ StatusDone
    \/ \E i \in Items : Abort(i)
    \/ \E i \in Items, keep \in RunKeep, fault \in RerunTagFaults :
         PoolRuns(i, keep, fault)
    \/ \E i \in Items : PoolDrops(i)
    \/ SpeedFirstTick
    \/ \E elapsed \in RunElapsed : SpeedTick(elapsed)
    \/ LaunchReturn
    \/ Rerun

RerunSpec == RerunInit /\ [][RerunNext]_vars

\* ================================================================ claims
Panicked == \E i \in Items : task_pc[i] = "panicked"
Counted == status.done + status.existed + status.failed

\* C1: in every reachable state the number of tasks that hold a permit is at
\* most min(NUM_CPUS, N), N being the number of post records.
C1_PermitBound == Cardinality(Holders) <= Min(NUM_CPUS, N)

\* More records than permits, every permit taken and a task waiting.
C1_Witness ==
    /\ N > NUM_CPUS
    /\ Cardinality(Holders) = NUM_CPUS
    /\ \E i \in Items : task_pc[i] = "acquire"

\* C2: once update_status has finished without a fault, every spawned task
\* has delivered exactly one outcome and done + existed + failed = N.
C2_AllDelivered ==
    status_pc = "done" =>
        /\ spawned = N
        /\ \A i \in 1..N : delivered[i] = 1
        /\ Counted = N

C2_Witness ==
    /\ status_pc = "done"
    /\ N >= 2
    /\ status.done >= 1
    /\ status.failed >= 1

\* C3: under fair scheduling, and unless a task panics, every task gets its
\* permit and finishes and launch returns.
C3_LaunchReturns ==
    <>(\/ Panicked
       \/ /\ launch_pc = "returned"
          /\ \A i \in 1..N : task_pc[i] = "finished" /\ "hash" \in io_log[i])

\* C4: an item's failure touches no other task and not launch; when it is
\* counted, failed grows by one, nothing else changes and the loop goes on.
\* launch only ever panics because a task or update_speed panicked.
C4_FailureIsolated ==
    /\ [][\A i \in Items :
            /\ (task_result[i].tag # "Err" /\ task_result'[i].tag = "Err") =>
                  /\ \A j \in Items \ {i} :
                        /\ task_pc'[j] = task_pc[j]
                        /\ task_result'[j] = task_result[j]
                  /\ status' = status
                  /\ launch_pc' = launch_pc
                  /\ status_pc' = status_pc
                  /\ download_join_set' = download_join_set
            /\ (delivered'[i] # delivered[i] /\ task_result[i].tag = "Err") =>
                  /\ status' = [status EXCEPT !.failed = @ + 1]
                  /\ launch_pc' = launch_pc
                  /\ status_pc' = "run"
                  /\ download_join_set' = download_join_set \ {i}]_vars
    /\ [](launch_pc = "panicked" => Panicked \/ speed_pc = "panicked")

\* A run that returned with a failed item and another item that was not.
C4_Witness ==
    /\ launch_pc = "returned"
    /\ status.failed >= 1
    /\ status.done + status.existed >= 1

\* C5: when the check runs on a file whose digest is the expected hash, the
\* task returns Existed at once and leaves the directory alone; a task that
\* returned Existed has sent no request and written no media or tag file.
Matches(i) ==
    /\ disk[FilePath(i)] # Absent
    /\ Md5Of(disk[FilePath(i)][1]) = api_post_data[i].md5

C5_ExistedSkips ==
    /\ [][\A i \in Items :
            (/\ task_pc[i] = "check"
             /\ checked'[i] # None
             /\ Matches(i)
             /\ checked'[i][1].io = "none") =>
                /\ task_pc'[i] = "finished"
                /\ task_result'[i] = OkResult("Existed")
                /\ disk' = disk]_vars
    /\ [](\A i \in Items :
            task_result[i].tag = "Existed" => io_log[i] = {"hash"})

C5_Witness ==
    /\ launch_pc = "returned"
    /\ task_result[1].tag = "Existed"
    /\ status = [done |-> 0, existed |-> 1, failed |-> 0]

\* C6 as stated: check_file_existed is Ok(false) whenever the file does
\* not exist, Ok(digest = hash) for a readable file, and Err for any other
\* I/O error on a file that is there, which fails the item.
C6_AbsentIsOkFalse ==
    \A i \in Items :
        checked[i] # None =>
            LET c == checked[i][1]
            IN /\ c.file = Absent => c.ret = IoOk(FALSE)
               /\ (c.file # Absent /\ c.io = "none") =>
                     c.ret = IoOk(Md5Of(c.file[1]) = api_post_data[i].md5)
               /\ (c.file # Absent /\ c.io # "none") =>
                     /\ c.ret = IoErr(c.io)
                     /\ task_pc[i] = "finished"
                     /\ task_result[i] =
                            ErrResult("check", FilePath(i), c.io)

\* C6, amended: check_file_existed is Ok(false) for a missing file whose
\* open reports NotFound, Ok(digest = hash) for a readable file, and Err for
\* any I/O error other than NotFound, which fails the item; that includes a
\* missing file whose open is refused for another reason.
C6_CheckFileExisted ==
    \A i \in Items :
        checked[i] # None =>
            LET c == checked[i][1]
            IN /\ (c.file = Absent /\ c.io = "none") => c.ret = IoOk(FALSE)
               /\ c.ret = IoErr("NotFound") => c.io = "NotFound"
               /\ (c.file # Absent /\ c.io = "none") =>
                     c.ret = IoOk(Md5Of(c.file[1]) = api_post_data[i].md5)
               /\ c.io \notin {"none", "NotFound"} =>
                     /\ c.ret = IoErr(c.io)
                     /\ task_pc[i] = "finished"
                     /\ task_result[i] =
                            ErrResult("check", FilePath(i), c.io)

\* The check of a missing file returned Ok(false) and the download follows.
C6_Witness ==
    /\ checked[1] # None
    /\ checked[1][1].file = Absent
    /\ checked[1][1].ret = IoOk(FALSE)
    /\ task_pc[1] = "download"

\* C7: a task returns Done only from the tag write after a finished transfer,
\* and exactly when that write put the tags, each space turned into ", ",
\* into the file with extension txt; otherwise it returns the tag-write error.
ExpectedTagText(tags) ==
    Flatten([k \in 1..Len(tags) |->
                IF tags[k] = SPACE THEN <<COMMA, SPACE>> ELSE <<tags[k]>>])

SidecarWritten(i, files) ==
    files[[stem |-> FilePath(i).stem, ext |-> "txt"]] =
        File(ExpectedTagText(api_post_data[i].tags))

C7_DoneMeansTagged ==
    /\ [](\A i \in 1..N :
            task_result[i].tag = "Done" =>
                /\ SidecarWritten(i, disk)
                /\ {"request", "media", "sidecar"} \subseteq io_log[i])
    /\ [][\A i \in 1..N :
            /\ (task_result[i].tag # "Done" /\ task_result'[i].tag = "Done")
                  => task_pc[i] = "tags"
            /\ (task_pc[i] = "tags" /\ task_pc'[i] = "finished") =>
                  IF SidecarWritten(i, disk')
                  THEN task_result'[i] = OkResult("Done")
                  ELSE /\ task_result'[i].tag = "Err"
                       /\ task_result'[i].ctx = "tags"]_vars

C7_Witness ==
    /\ task_result[1].tag = "Done"
    /\ api_post_data[1].tags = <<CharA, SPACE, CharB>>
    /\ disk[[stem |-> 1, ext |-> "txt"]] =
           File(<<CharA, COMMA, SPACE, CharB>>)

\* C8: a task answered with a non-2xx status returns the download error of
\* kind Reqwest, whatever the response declares or carries; once counted it
\* is a failed item whose diagnostic names its path, and alone in a run it
\* gives done 0, existed 0, failed 1.
C8_BadStatusFails ==
    \A i \in 1..N :
        (/\ answered[i] # None
         /\ answered[i][1] \notin 200..299
         /\ task_pc[i] \notin {"create", "set_len", "stream"}) =>
            /\ task_pc[i] = "finished"
            /\ task_result[i] = ErrResult("download", FilePath(i), "Reqwest")
            /\ delivered[i] = 1 =>
                  /\ status.failed >= 1
                  /\ \E d \in stderr :
                        d.path = FilePath(i) /\ d.ctx = "download"
            /\ (N = 1 /\ status_pc = "done") =>
                  status = [done |-> 0, existed |-> 0, failed |-> 1]

\* C9: a task that panicked or was cancelled is never counted, launch never
\* returns after a panic, and joining such a task changes no counter and
\* makes launch panic.
C9_PanicPropagates ==
    /\ [](\A i \in Items :
            task_pc[i] \in {"panicked", "cancelled"} =>
                delivered[i] = 0 /\ launch_pc # "returned")
    /\ [][\A i \in Items :
            (/\ status_pc = "run"
             /\ status_pc' # "dropped"
             /\ i \in download_join_set
             /\ i \notin download_join_set'
             /\ task_pc[i] # "finished") =>
                /\ status' = status
                /\ process_bar'.pos = process_bar.pos
                /\ launch_pc' = "panicked"
                /\ status_pc' = "panicked"]_vars

\* launch panicked after other outcomes had been counted.
C9_Witness ==
    /\ launch_pc = "panicked"
    /\ Panicked
    /\ Counted >= 1

\* C10: no increment of the byte counter is lost or counted twice: what was
\* added so far is what update_speed drained plus what the counter holds.
C10_NoLostIncrement ==
    speed_cursor.alive => speed_cursor.val = undrained

\* C11: once the byte counter is dropped, a transfer goes on as before: each
\* chunk is buffered without touching or reviving the counter, the task does
\* not panic, it fails only with a transfer error of its own, and when the
\* body ends without error the transfer succeeds and the tag write follows.
C11_DroppedCounterSkipped ==
    [][\A i \in Items :
          (/\ task_pc[i] = "stream"
           /\ ~speed_cursor.alive
           /\ <<task_pc[i], response[i], file_buf[i]>>' #
                  <<task_pc[i], response[i], file_buf[i]>>) =>
              /\ speed_cursor' = speed_cursor
              /\ undrained' = undrained
              /\ task_pc'[i] # "panicked"
              /\ task_pc'[i] = "stream" =>
                    /\ response[i].chunks # <<>>
                    /\ file_buf'[i] = file_buf[i] \o Head(response[i].chunks)
                    /\ response'[i].chunks = Tail(response[i].chunks)
                    /\ "skip" \in io_log'[i]
              /\ task_pc'[i] = "finished" =>
                    /\ task_result'[i].tag = "Err"
                    /\ task_result'[i].ctx = "download"
                    /\ task_result'[i].kind \in {"Io", "Reqwest"}
              /\ task_pc'[i] = "tags" =>
                    /\ response[i] = [chunks |-> <<>>, rx_err |-> FALSE]
                    /\ disk'[FilePath(i)] =
                           Overlay(file_buf[i], disk[FilePath(i)])]_vars

\* A transfer succeeded after its increments had been skipped.
C11_Witness ==
    /\ ~speed_cursor.alive
    /\ \E i \in Items :
          /\ task_pc[i] = "tags"
          /\ "skip" \in io_log[i]
          /\ disk[FilePath(i)] = File(<<1>>)

\* The transfer of task i has ended in an error of the given kind.
TransferFailed(i, kind) ==
    /\ task_pc[i] = "finished"
    /\ task_result[i] = ErrResult("download", FilePath(i), kind)

\* The request of task i was not sent or was answered with an error status,
\* 4xx or 5xx.
RequestRejected(i) == answered[i] = None \/ answered[i][1] \in 400..599

\* The blocking pool, closed by the runtime that shuts down, refused a file
\* operation of task i.
PoolRefused(i) == "refused" \in io_log[i]

\* C12 as stated: a transfer whose response declares a content length of 0
\* always ends in ZeroContentLength.
C12_ZeroLengthAlwaysZeroContentLength ==
    \A i \in 1..N :
        (/\ started[i] # None
         /\ started[i][1].content_length = Some(0)
         /\ task_pc[i] = "finished") =>
            TransferFailed(i, "ZeroContentLength")

\* C12, amended: a transfer whose response declares a content length of 0
\* never succeeds; it ends in ZeroContentLength once the status was no
\* error status and the file was created, in Reqwest for a status 4xx or
\* 5xx and in Io when File::create failed, be it that the file system or
\* the closed blocking pool refused it.  A failed set_len ends in
\* FileAllocationFailed, never in Io, and these two kinds have no other
\* origin.  Every other failure of a transfer is of kind Io or Reqwest.
C12_ErrorKinds ==
    \A i \in 1..N :
        started[i] # None =>
            LET s == started[i][1]
                kind == task_result[i].kind
            IN /\ (s.content_length = Some(0) /\ task_pc[i] = "finished") =>
                     TransferFailed(i,
                        IF RequestRejected(i) THEN "Reqwest"
                        ELSE IF s.fault = "create" \/ PoolRefused(i)
                        THEN "Io"
                        ELSE "ZeroContentLength")
               /\ (/\ s.fault = "set_len"
                   /\ task_pc[i] = "finished"
                   /\ ~PoolRefused(i)) =>
                     TransferFailed(i, "FileAllocationFailed")
               /\ kind = "FileAllocationFailed" =>
                     /\ s.content_length \notin {None, Some(0)}
                     /\ s.fault = "set_len" \/ PoolRefused(i)
               /\ (PoolRefused(i) /\ task_result[i].ctx = "download") =>
                     kind \in {"Io", "FileAllocationFailed"}
               /\ kind = "ZeroContentLength" =>
                     s.content_length = Some(0) /\ ~RequestRejected(i)
               /\ (task_result[i].tag = "Err"
                      /\ task_result[i].ctx = "download") =>
                     kind \in {"Io", "Reqwest", "ZeroContentLength",
                               "FileAllocationFailed"}

\* A success status declaring length 0 was counted as a failed item of kind
\* ZeroContentLength.
C12_Witness ==
    /\ started[1] = Some([content_length |-> Some(0), fault |-> "none",
                          body |-> <<>>])
    /\ answered[1] = Some(200)
    /\ TransferFailed(1, "ZeroContentLength")
    /\ status.failed = 1

\* C13: when a transfer has returned success, the file at the destination is
\* the whole response body, its chunks in the order received, and its length
\* is the declared content length if the response declared one.
C13_SuccessMeansComplete ==
    \A i \in 1..N :
        task_pc[i] = "tags" =>
            /\ started[i] # None
            /\ disk[FilePath(i)] = File(started[i][1].body)
            /\ started[i][1].content_length # None =>
                  Len(disk[FilePath(i)][1]) =
                      started[i][1].content_length[1]

\* A body of two chunks with a declared length of 2 was transferred.
C13_Witness ==
    /\ task_pc[1] = "tags"
    /\ started[1] = Some([content_length |-> Some(2), fault |-> "none",
                          body |-> <<1, 2>>])
    /\ disk[FilePath(1)] = File(<<1, 2>>)

\* C14: when the download directory cannot be created, build fails and
\* nothing follows: no task is spawned, no permit taken, no request sent,
\* and launch is never called.  When the directory is there already, build
\* succeeds and leaves the directory and its files as they were.  Tasks only
\* ever run with the directory in place.  A build that is interrupted
\* returns nothing.
C14_BuildEnsuresDir ==
    /\ [](main_pc = "build_failed" =>
            /\ download_dir # "dir"
            /\ launch_pc = "uncalled"
            /\ spawned = 0
            /\ download_join_set = {}
            /\ semaphore = NUM_CPUS
            /\ \A i \in Items :
                  task_pc[i] = "unspawned" /\ io_log[i] = {})
    /\ [](launch_pc # "uncalled" => download_dir = "dir")
    /\ [][/\ main_pc = "build_failed" => main_pc' = "build_failed"
          /\ (main_pc = "build" /\ N > 0
                 /\ main_pc' \in {"launch", "build_failed"}) =>
                IF download_dir = "dir"
                THEN /\ main_pc' = "launch"
                     /\ download_dir' = "dir"
                     /\ disk' = disk
                ELSE IF download_dir = "file"
                THEN main_pc' = "build_failed" /\ download_dir' = "file"
                ELSE \/ main_pc' = "launch" /\ download_dir' = "dir"
                     \/ /\ main_pc' = "build_failed"
                        /\ download_dir' = "missing"]_vars

\* build failed on a directory that could not be created, with records to
\* download.
C14_Witness ==
    /\ main_pc = "build_failed"
    /\ download_dir = "missing"
    /\ N >= 1

\* After the interrupt no outcome is counted and no task is spawned.
NoCountAfterInterrupt ==
    main_pc \in {"interrupted_build", "interrupted", "exited"} =>
        /\ status' = status
        /\ delivered' = delivered
        /\ process_bar'.pos = process_bar.pos
        /\ stderr' = stderr
        /\ spawned' = spawned

\* C15 as stated: after the interrupt no outcome is counted, no task is
\* spawned and no task starts a transfer.
C15_NoTransferAfterInterrupt ==
    [][/\ NoCountAfterInterrupt
       /\ main_pc \in {"interrupted_build", "interrupted", "exited"} =>
             \A i \in Items :
                 "request" \in io_log'[i] => "request" \in io_log[i]]_vars

\* C15, amended: the interrupt drops launch at once, so that no outcome is
\* counted and no task is spawned afterwards; every task not yet finished is
\* aborted, takes no step once it is cancelled, and is never joined; of a
\* cancelled task only the file operation it had handed to the blocking
\* pool can still change a file, once, unless the pool discards it.  The
\* process exits, without any task having to take a step, with every task
\* ended or cancelled and the pool empty, and nothing happens after the
\* exit.  Until it is cancelled a task that was running may still take
\* steps.  An interrupt that arrives before launch is called leaves no task
\* at all.
C15_InterruptStopsRun ==
    /\ [][/\ NoCountAfterInterrupt
          /\ main_pc = "exited" => UNCHANGED vars
          /\ \A i \in Items :
                task_pc[i] = "cancelled" =>
                    /\ task_pc'[i] = "cancelled"
                    /\ task_result'[i] = task_result[i]
                    /\ (\/ io_log'[i] # io_log[i]
                        \/ disk'[FilePath(i)] # disk[FilePath(i)]
                        \/ disk'[TagFilePath(i)] # disk[TagFilePath(i)]) =>
                          /\ blocking_pool[i] # NoOp
                          /\ blocking_pool'[i] = NoOp]_vars
    /\ [](main_pc \in {"interrupted_build", "interrupted", "exited"} =>
            IF launch_pc = "uncalled"
            THEN /\ spawned = 0
                 /\ \A i \in Items : task_pc[i] = "unspawned"
            ELSE /\ launch_pc = "dropped"
                 /\ download_join_set = {}
                 /\ status_pc # "run"
                 /\ speed_pc \notin {"first_tick", "loop"}
                 /\ ~process_bar.alive /\ ~speed_cursor.alive)
    /\ [](main_pc = "exited" =>
            \A i \in Items :
                /\ task_pc[i] \in EndedPcs \cup {"unspawned"}
                /\ blocking_pool[i] = NoOp)
    /\ (main_pc \in {"interrupted_build", "interrupted"} ~>
            main_pc = "exited")

\* The process exited after an interrupt that left a transfer unfinished and
\* an outcome uncounted.
C15_Witness ==
    /\ main_pc = "exited"
    /\ launch_pc = "dropped"
    /\ Counted < N
    /\ \E i \in Items :
          /\ task_pc[i] = "cancelled"
          /\ "request" \in io_log[i]
          /\ "sidecar" \notin io_log[i]

\* The check of task i read a file whose digest is not the expected hash.
FoundMismatch(i) ==
    /\ checked[i] # None
    /\ checked[i][1].file # Absent
    /\ checked[i][1].io = "none"
    /\ Md5Of(checked[i][1].file[1]) # api_post_data[i].md5

\* C16: a task that finds a file with another digest at its destination
\* never returns Existed: it goes on to the transfer, which creates the file
\* anew, so that nothing of the old content is left, and after a successful
\* transfer the file is the response body.
C16_MismatchRedownloads ==
    /\ [](\A i \in 1..N :
            FoundMismatch(i) =>
                /\ task_result[i].tag # "Existed"
                /\ task_pc[i] \notin {"acquire", "check"}
                /\ task_pc[i] = "finished" => "request" \in io_log[i]
                /\ task_pc[i] = "tags" =>
                      disk[FilePath(i)] = File(started[i][1].body))
    /\ [][\A i \in 1..N :
            (FoundMismatch(i) /\ task_pc[i] = "download"
                /\ "media" \in io_log'[i]) =>
                    LET len == started'[i][1].content_length
                    IN disk'[FilePath(i)] =
                           IF len = None \/ task_pc'[i] = "finished"
                           THEN File(<<>>)
                           ELSE File(Zeros(len[1]))]_vars

\* A leftover file with another digest was replaced by the expected content.
C16_Witness ==
    /\ checked[1] # None
    /\ checked[1][1].file = File(<<2>>)
    /\ api_post_data[1].md5 = Md5Of(<<1>>)
    /\ task_result[1].tag = "Done"
    /\ FilePath(1).ext = "jpg"
    /\ disk[FilePath(1)] = File(<<1>>)

\* The value of a hex digit written in either case, and hex strings that
\* denote the same value.
HexDigit(c) == CHOOSE j \in 1..16 : HexLower[j] = c \/ HexUpper[j] = c

SameHex(a, b) ==
    /\ Len(a) = Len(b)
    /\ \A k \in 1..Len(a) : HexDigit(a[k]) = HexDigit(b[k])

\* C17: the check of a readable file returns true whenever the file's digest
\* and the expected hash denote the same hex value, in whatever letter case
\* the expected hash is written.
C17_CaseInsensitiveMatch ==
    \A i \in 1..N :
        (/\ checked[i] # None
         /\ checked[i][1].file # Absent
         /\ checked[i][1].io = "none"
         /\ SameHex(Md5Of(checked[i][1].file[1]), api_post_data[i].md5)) =>
            checked[i][1].ret = IoOk(TRUE)

\* C18 as stated: hash_file returns the lowercase hex digest of the whole
\* content of the file, however the reads split it, and a missing file
\* gives the error NotFound.
C18_MissingIsNotFound ==
    /\ hashing.pc = "read" =>
         /\ hashing.fed \o hashing.rest = hashing.file[1]
         /\ hashing.hasher = DigestUpdate(DigestNew, hashing.fed)
    /\ (hashing.pc = "done" /\ hashing.result[1].ok) =>
         /\ hashing.fed = hashing.file[1]
         /\ hashing.result[1].val =
                encode_string(DigestUpdate(DigestNew, hashing.file[1]))
         /\ \A k \in 1..Len(hashing.result[1].val) :
                \E j \in 1..16 : HexLower[j] = hashing.result[1].val[k]
         /\ hashing.file = File(<<>>) =>
                hashing.result[1].val = encode_string(DigestNew)
    /\ (hashing.pc = "done" /\ hashing.file = Absent) =>
         hashing.result = Some(IoErr("NotFound"))

\* C18, amended: hash_file returns the lowercase hex digest of the whole
\* content of the file, however the reads split it (each read returns
\* between 1 byte and the buffer size, a read of 0 bytes ends the loop): the
\* bytes fed to the hasher, in order, are the content read so far, and all
\* of it at the end; an empty file gives the digest of the empty input.  A
\* missing file gives no digest but the error of File::open: NotFound, or
\* the error with which the open was refused before the file was looked
\* for.
C18_HashWholeFile ==
    /\ hashing.pc = "read" =>
         /\ hashing.fed \o hashing.rest = hashing.file[1]
         /\ hashing.hasher = DigestUpdate(DigestNew, hashing.fed)
    /\ (hashing.pc = "done" /\ hashing.result[1].ok) =>
         /\ hashing.fed = hashing.file[1]
         /\ hashing.result[1].val =
                encode_string(DigestUpdate(DigestNew, hashing.file[1]))
         /\ \A k \in 1..Len(hashing.result[1].val) :
                \E j \in 1..16 : HexLower[j] = hashing.result[1].val[k]
         /\ hashing.file = File(<<>>) =>
                hashing.result[1].val = encode_string(DigestNew)
    /\ (hashing.pc = "done" /\ hashing.file = Absent) =>
         /\ ~hashing.result[1].ok
         /\ hashing.fed = <<>>
         /\ hashing.result[1].kind \in
                {"NotFound"} \cup (HashIoFaults \ {"none"})

\* A file of three bytes was hashed in reads shorter than the buffer: the
\* last read left bytes of an earlier one behind it in the buffer.
C18_Witness ==
    /\ hashing.pc = "done"
    /\ hashing.result[1].ok
    /\ hashing.file = File(<<1, 2, 2>>)
    /\ hashing.buf = <<2, 2, 0>>

\* The posts of the pages received so far, in the order of the pages.
RECURSIVE ServedPosts(_)
ServedPosts(served) ==
    IF served = <<>> THEN <<>>
    ELSE (IF Head(served) = None THEN <<>> ELSE Head(served)[1])
         \o ServedPosts(Tail(served))

ViaBatch == api.entry \in {"config", "batch"}

\* C19: BatchGetter::run requests the pages pid = 0, 1, 2, ... with limit
\* 100, and when it returns Ok the vector holds exactly min(num_imgs, count
\* announced by the first page) posts, the first that many of the pages in
\* page order, and no page was requested that was not needed; if the first
\* page has no post field the vector is empty and only that page was
\* requested.
C19_BatchReturnsFirstPosts ==
    /\ ViaBatch =>
         \A k \in 1..Len(api.requests) :
             api.requests[k] =
                 [tags |-> api.tags, limit |-> LIMIT, pid |-> k - 1]
    /\ (ViaBatch /\ api.pc = "done" /\ api.result[1].ok) =>
         LET total == Min(api.num_imgs, api.count)
             posts == api.result[1].val
             pages == Len(api.served)
         IN IF api.served[1] = None
            THEN posts = <<>> /\ Len(api.requests) = 1
            ELSE /\ Len(posts) = total
                 /\ posts = SubSeq(ServedPosts(api.served), 1, total)
                 /\ Len(api.requests) = pages
                 /\ pages > 1 =>
                      Len(ServedPosts(SubSeq(api.served, 1, pages - 1)))
                          < total

\* 101 posts were asked for, as in test_batch_get_api_data, of a server that
\* has more: two pages were requested and the second one was cut.
C19_Witness ==
    /\ ViaBatch
    /\ api.pc = "done"
    /\ api.result[1].ok
    /\ api.num_imgs = LIMIT + 1
    /\ api.count > LIMIT + 1
    /\ Len(api.requests) = 2
    /\ Len(api.result[1].val) = LIMIT + 1
    /\ Len(ServedPosts(api.served)) = 2 * LIMIT

\* C20: invalid arguments are rejected before any request is sent.
\* Getter::build fails when tags is empty or limit is outside 1..=100,
\* BatchGetter::build fails when tags is empty or num_imgs is 0, and the
\* validation of the Config fails when tags is empty; then no Getter and no
\* BatchGetter is produced and no request is ever sent.  Every request that
\* is sent has tags and a limit within 1..=100.
C20_InvalidArgsRejected ==
    LET invalid ==
            \/ api.entry = "getter"
               /\ (api.tags = <<>> \/ ~(api.limit \in 1..100))
            \/ api.entry = "batch"
               /\ (api.tags = <<>> \/ api.num_imgs = 0)
            \/ api.entry = "config" /\ api.tags = <<>>
    IN /\ (invalid /\ api.pc # "start") =>
            /\ api.pc = "rejected"
            /\ ~api.result[1].ok
       /\ invalid =>
            /\ api.getter = None
            /\ api.batch_getter = None
            /\ api.requests = <<>>
       /\ \A k \in 1..Len(api.requests) :
            /\ api.requests[k].tags # <<>>
            /\ api.requests[k].limit \in 1..100

\* Getter::build was called with tags and a limit of 101 and failed.
C20_Witness ==
    /\ api.entry = "getter"
    /\ api.tags # <<>>
    /\ api.limit = 101
    /\ api.pc = "rejected"
    /\ api.result = Some(Err("Limit can only be between 1 and 100"))
    /\ api.requests = <<>>

\* C21: every task releases its permit exactly once on every exit path
\* (Existed, Done, a failed check, transfer or tag write, cancellation,
\* panic): in every reachable state the permits available plus the permits
\* held are the capacity, and once all tasks have ended the available
\* permits are the capacity.
C21_PermitsConserved ==
    /\ semaphore + Cardinality(Holders) = NUM_CPUS
    /\ (\A i \in 1..N : task_pc[i] \in EndedPcs) => semaphore = NUM_CPUS

\* Two tasks have ended, one by a panic and one by cancellation while it
\* held a permit, and every permit is back.
C21_Witness ==
    /\ N = 2
    /\ \A i \in 1..N : task_pc[i] \in EndedPcs
    /\ \E i \in 1..N : task_pc[i] = "panicked"
    /\ \E i \in 1..N : task_pc[i] = "cancelled" /\ io_log[i] # {}
    /\ semaphore = NUM_CPUS

\* The I/O of item i that a step performs: a hash check, a request, or a
\* write of its media file or of its tag file.
DoesIo(i) ==
    \/ io_log'[i] # io_log[i]
    \/ checked'[i] # checked[i]
    \/ answered'[i] # answered[i]
    \/ started'[i] # started[i]
    \/ disk'[FilePath(i)] # disk[FilePath(i)]
    \/ disk'[TagFilePath(i)] # disk[TagFilePath(i)]

\* C22 as stated: no hash check, request, media-file write or tag-file
\* write of an item happens while its task does not hold a permit: every
\* step that does I/O for an item is taken by a task that holds one of the
\* permits that are out, and a task that has not acquired its permit yet
\* has done no I/O.
C22_IoOnlyUnderPermit ==
    /\ [][\A i \in 1..N :
            DoesIo(i) =>
                /\ i \in Holders
                /\ semaphore + Cardinality(Holders) = NUM_CPUS]_vars
    /\ [](\A i \in 1..N :
            task_pc[i] \in {"unspawned", "acquire"} =>
                /\ io_log[i] = {}
                /\ checked[i] = None
                /\ answered[i] = None
                /\ started[i] = None)

\* C22, amended: a task that has not acquired its permit yet has done no
\* I/O, and every step that does I/O for an item is taken by its task while
\* it holds one of the permits that are out, but for one case: the file
\* operation a task had handed to the blocking pool when it was cancelled,
\* which is carried out after the cancellation released the permit.
C22_IoUnderPermit ==
    /\ [][\A i \in 1..N :
            DoesIo(i) =>
                \/ /\ i \in Holders
                   /\ semaphore + Cardinality(Holders) = NUM_CPUS
                \/ /\ task_pc[i] = "cancelled"
                   /\ blocking_pool[i] # NoOp
                   /\ blocking_pool'[i] = NoOp]_vars
    /\ [](\A i \in 1..N :
            task_pc[i] \in {"unspawned", "acquire"} =>
                /\ io_log[i] = {}
                /\ checked[i] = None
                /\ answered[i] = None
                /\ started[i] = None)

\* With one permit, one task has checked, requested and written its file
\* while the other still waits for the permit.
C22_Witness ==
    /\ NUM_CPUS = 1
    /\ N = 2
    /\ semaphore = 0
    /\ \E i, j \in 1..N :
         /\ task_pc[i] = "tags"
         /\ io_log[i] = {"hash", "request", "media"}
         /\ task_pc[j] = "acquire"
         /\ io_log[j] = {}

\* C23: the counters done, existed and failed start at 0, never decrease
\* and change only in a step of the aggregation loop that takes the result
\* of one task; such a step adds 1 to exactly one of them and 1 to the
\* progress position, also for a failure, so the position is always done +
\* existed + failed.
C23_CountersTrackProgress ==
    /\ status = [done |-> 0, existed |-> 0, failed |-> 0]
    /\ process_bar.pos = 0
    /\ [][/\ status'.done >= status.done
          /\ status'.existed >= status.existed
          /\ status'.failed >= status.failed
          /\ (status' # status \/ process_bar'.pos # process_bar.pos
                \/ delivered' # delivered) =>
               /\ status_pc = "run"
               /\ \E i \in download_join_set :
                    /\ task_pc[i] = "finished"
                    /\ download_join_set' = download_join_set \ {i}
                    /\ delivered' = [delivered EXCEPT ![i] = @ + 1]
                    /\ LET field == IF task_result[i].tag = "Done"
                                    THEN "done"
                                    ELSE IF task_result[i].tag = "Existed"
                                    THEN "existed"
                                    ELSE "failed"
                       IN status' = [status EXCEPT ![field] = @ + 1]
               /\ process_bar'.pos = process_bar.pos + 1]_vars
    /\ [](process_bar.pos = Counted)

\* One failure and one success have been processed and the position is 2.
C23_Witness ==
    /\ status.failed = 1
    /\ status.done = 1
    /\ process_bar.pos = 2

\* C24: the aggregation loop takes outcomes as tasks complete, not in the
\* order of submission: while the loop runs, the outcome of any task that
\* has ended can be taken next, whatever the tasks submitted before it are
\* doing, and a step of the loop takes the outcome of exactly one task,
\* which has ended.
C24_CompletionOrder ==
    /\ [](\A i \in 1..N :
            (/\ status_pc = "run"
             /\ i \in download_join_set
             /\ task_pc[i] \in EndedPcs) => ENABLED JoinNext(i))
    /\ [][delivered' # delivered =>
            \E i \in download_join_set :
                /\ task_pc[i] \in EndedPcs
                /\ delivered' = [delivered EXCEPT ![i] = @ + 1]
                /\ download_join_set' = download_join_set \ {i}]_vars

\* The outcome of the second task has been taken while the first task,
\* submitted before it, is still at work.
C24_Witness ==
    /\ N = 2
    /\ delivered[2] = 1
    /\ delivered[1] = 0
    /\ task_pc[1] \in HoldingPcs

\* C25: the sampler never stops while the aggregation loop still holds the
\* progress bar, that is while the outcome of any task is not processed
\* yet, and launch returns only after both the aggregation loop and the
\* sampler have stopped.
C25_SamplerOutlastsAggregation ==
    /\ speed_pc = "stopped" =>
         /\ status_pc = "done"
         /\ ~process_bar.alive
         /\ download_join_set = {}
         /\ \A i \in 1..N : delivered[i] = 1
    /\ (status_pc = "run" /\ launch_pc = "join") =>
         /\ process_bar.alive
         /\ speed_pc \in {"first_tick", "loop"}
    /\ launch_pc = "returned" =>
         /\ status_pc = "done"
         /\ speed_pc = "stopped"

\* Two transfers are done and counted, the sampler has drained what they
\* added and has stopped after the loop, and launch has returned.
C25_Witness ==
    /\ launch_pc = "returned"
    /\ status_pc = "done"
    /\ speed_pc = "stopped"
    /\ N = 2
    /\ status.done = 2
    /\ undrained = 0

\* C27: at a tick after the first the rate put on display is
\* floor(drained * 1000 / elapsed_ms), for every value drained from the
\* counter and every elapsed time of at least 1 ms.
C27_RateIsFloor ==
    (speed_calc.pc = "done" /\ speed_calc.elapsed >= 1) =>
        /\ speed_calc.speed[1].panic = ""
        /\ speed_calc.speed[1].val =
               (speed_calc.current_size * 1000) \div speed_calc.elapsed

\* A tick of update_speed completes in this step.
TickCompletes ==
    /\ speed_pc \in {"first_tick", "loop"}
    /\ clock'.deadline # clock.deadline \/ speed_pc' # speed_pc

\* C26: once update_status has finished and dropped the bar, update_speed
\* returns at its next tick, with no signal but the dead weak handle, so
\* that launch returns; that tick is due no more than one interval after
\* the end of update_status, also when there is no record.
C26_StopsAtNextTick ==
    /\ [][(status_pc = "done" /\ TickCompletes) =>
            speed_pc' = "stopped"]_vars
    /\ []((status_pc = "done" /\ speed_pc \in {"first_tick", "loop"}) =>
            clock.deadline <= clock.done_at[1] + SPEED_UPDATE_MS)

\* C28: the first tick of update_speed swaps the counter to 0 and displays
\* nothing, so the bytes added before it reach no displayed rate: every
\* rate put on display is computed from the bytes added since the previous
\* drain alone, the first one from the bytes added after the first tick.
C28_FirstSampleDiscarded ==
    /\ [][(speed_pc = "first_tick" /\ speed_pc' \in {"loop", "stopped"}) =>
            /\ speed_cursor'.val = 0
            /\ clock'.base = undrained'
            /\ clock'.prefix = clock.prefix
            /\ clock'.shown = clock.shown]_vars
    /\ [][(clock'.shown # clock.shown) =>
            /\ speed_pc = "loop"
            /\ clock'.shown = clock.shown + 1
            /\ clock'.base = undrained'
            /\ clock'.prefix =
                 Speed((undrained - clock.base) % UsizeModulus,
                       clock.now - clock.last_instant, clock.debug).val]_vars

\* Three bytes were received, one of them before the first tick: the one
\* rate displayed so far is that of the two bytes received after it.
C28_Witness ==
    /\ task_pc[1] = "stream"
    /\ Len(file_buf[1]) = 3
    /\ speed_pc = "loop"
    /\ speed_cursor.val = 0
    /\ clock.shown = 1
    /\ clock.prefix = 2000

\* The sampler swaps the counter in this step.
Drains ==
    /\ speed_pc \in {"first_tick", "loop"}
    /\ speed_pc' \in {"loop", "stopped"}
    /\ speed_cursor'.val = 0
    /\ speed_cursor' # speed_cursor \/ undrained' # undrained

\* C29: a chunk whose length would carry the counter past its maximum makes
\* the task panic, the panic makes launch panic, and no value the sampler
\* swaps out of the counter is a wrapped one: it is the number of bytes
\* added since the previous swap.
C29_NoWrappedValueObserved ==
    /\ [][\A i \in Items :
            (/\ task_pc[i] = "stream"
             /\ response[i].chunks # <<>>
             /\ speed_cursor.alive
             /\ speed_cursor.val + Len(Head(response[i].chunks))
                    >= UsizeModulus
             /\ task_pc'[i] # "stream") =>
                task_pc'[i] \in {"panicked", "cancelled", "finished"}]_vars
    /\ [](Panicked => launch_pc # "returned")
    /\ [][Drains => speed_cursor.val = undrained]_vars

\* C30: every rate is computed with an elapsed time of at least one
\* millisecond, whatever time the body of update_speed took before the
\* tick, so the division never panics.
C30_ElapsedPositive ==
    /\ [][(speed_pc = "loop" /\ clock'.deadline # clock.deadline) =>
            clock.now - clock.last_instant >= 1]_vars
    /\ [](speed_pc # "panicked")

\* Positions from which task i can still come to write a chunk.
CanStillWrite(i) ==
    task_pc[i] \in {"acquire", "check", "download", "create", "set_len",
                   "stream"}

\* C31 as stated: whenever a task can still write a chunk the byte counter
\* is alive, and no chunk is ever written with its increment skipped.
C31_CounterAlwaysAlive ==
    \A i \in Items :
        /\ CanStillWrite(i) => speed_cursor.alive
        /\ "skip" \notin io_log[i]

\* C31: as long as launch has neither panicked nor been dropped, the byte
\* counter is alive while a task can still write a chunk, and an increment
\* is skipped only by a task that outlives a launch that panicked or was
\* dropped.
C31_CounterAliveWhileLaunchRuns ==
    /\ [](\A i \in Items :
            (launch_pc \notin {"panicked", "dropped"} /\ CanStillWrite(i))
                => speed_cursor.alive)
    /\ [][\A i \in Items :
            ("skip" \in io_log'[i] /\ "skip" \notin io_log[i]) =>
                /\ launch_pc \in {"panicked", "dropped"}
                /\ ~speed_cursor.alive]_vars

\* One task has been counted and update_speed is in its loop while another
\* task streams, its bytes counted by the live counter.
C31_Witness ==
    /\ launch_pc = "join"
    /\ speed_pc = "loop"
    /\ \E i, j \in Items :
         /\ delivered[j] = 1
         /\ task_pc[i] = "stream"
         /\ file_buf[i] # <<>>
         /\ "skip" \notin io_log[i]
    /\ speed_cursor.alive
    /\ speed_cursor.val > 0

\* The request of task i was made and was not sent or was answered with a
\* status outside 2xx.
RequestFailed(i) ==
    /\ started[i] # None
    /\ answered[i] = None \/ answered[i][1] \notin 200..299

\* C32: a transfer whose request could not be sent or was answered with a
\* status that is not 2xx leaves the directory as the existing-file check
\* found it: the destination is neither created nor truncated nor
\* modified, and no sidecar is written.
C32_FailedRequestWritesNothing ==
    /\ [][\A i \in Items :
            (~RequestFailed(i) /\ RequestFailed(i)') => disk' = disk]_vars
    /\ [](\A i \in Items :
            RequestFailed(i) =>
                /\ disk[FilePath(i)] = checked[i][1].file
                /\ \A p \in Paths : p # FilePath(i) => disk[p] = Absent
                /\ io_log[i] \cap {"media", "sidecar"} = {})

\* C33: whenever the outcome of an item is Done, the media file at its
\* destination has the digest the record expects, so that the check of a
\* later run over the same record and the same directory finds it.
C33_DoneMatchesHash ==
    \A i \in Items :
        (task_pc[i] = "finished" /\ task_result[i] = OkResult("Done")) =>
            check_file_existed(disk[FilePath(i)], api_post_data[i].md5,
                               "none") = IoOk(TRUE)

\* C34: in every run of a sequence of runs over the same records that
\* began in an empty directory, an item reported as Existed has its tag
\* file on disk next to its media file.
C34_ExistedHasSidecar ==
    \A i \in Items :
        (task_pc[i] = "finished" /\ task_result[i] = OkResult("Existed")) =>
            /\ disk[FilePath(i)] # Absent
            /\ disk[TagFilePath(i)] # Absent

\* C35: the paths written during a run are pairwise distinct: two records
\* have different media paths and different tag-file paths, and no tag
\* file that was written has the path of a media file that was written,
\* whatever the extension of the image name.
C35_WrittenPathsDistinct ==
    \A i, j \in 1..N :
        /\ i # j => /\ FilePath(i) # FilePath(j)
                    /\ TagFilePath(i) # TagFilePath(j)
        /\ ("sidecar" \in io_log[i] /\ "media" \in io_log[j]) =>
               TagFilePath(i) # FilePath(j)

\* C36: BatchGetter::run ends with a result or an error and never with a
\* panic, whatever the pages hold: once it was called it is collecting
\* pages or has returned, also when a page has no posts or the pages hold
\* fewer posts than the first page announced.
C36_BatchRunNeverPanics ==
    (api.batch_getter # None /\ api.requests # <<>>) =>
        /\ api.pc \in {"paging", "done"}
        /\ api.pc = "done" => api.result # None

====
